---- MODULE Spec2Model ----
(***************************************************************************)
(* A model of the Flow Production Tracking OpenAssetIO manager plugin      *)
(* (FPTManagerInterface): the entity-reference parser, the batch           *)
(* operations resolve and entityTraits with their per-item callbacks,      *)
(* managementPolicy, the lazily constructed Toolkit handle, the database   *)
(* client and the records of the site it queries.                          *)
(*                                                                         *)
(* Strings are TLA+ strings; Python's str operations (startswith, slicing, *)
(* split, int) are computed character by character.                        *)
(***************************************************************************)
EXTENDS Integers, Sequences, FiniteSets, TLC

VARIABLES
    sgclient,     \* self.__sgclient: "None" or the Shotgun object it holds
    sgtk_lazy,    \* self.__sgtk_lazy: "None", "engine.sgtk" or "sgtk_from_entity"
    project_id,   \* self.__project_id: 0 stands for None
    engine,       \* sgtk.platform.current_engine() is truthy
    online,       \* the FPT server answers the client's queries
    call,         \* the batch call that has just returned (or NoCall)
    probe,        \* input and output of one application of a pure function
    site,         \* the records of the FPT site, by (entity type, id)
    settings,     \* self.__settings: a function from the names of settings
    ui            \* the widgets of the UI delegate (NoUi where none is shown)

vars ==
    <<sgclient, sgtk_lazy, project_id, engine, online, call, probe, site,
      settings, ui>>

(***************************************************************************)
(* Python string helpers                                                   *)
(***************************************************************************)

\* s.startswith(p)
StartsWith(s, p) == Len(s) >= Len(p) /\ SubSeq(s, 1, Len(p)) = p

\* s[n:]
DropPrefix(s, n) == SubSeq(s, n + 1, Len(s))

RECURSIVE SplitAcc(_, _, _, _)
SplitAcc(s, sep, cur, acc) ==
    IF s = "" THEN Append(acc, cur)
    ELSE IF Head(s) = sep
         THEN SplitAcc(Tail(s), sep, "", Append(acc, cur))
         ELSE SplitAcc(Tail(s), sep, cur \o Head(s), acc)

\* s.split(sep) for a one-character separator: always at least one piece
Split(s, sep) == SplitAcc(s, sep, "", <<>>)

Digits == {"0", "1", "2", "3", "4", "5", "6", "7", "8", "9"}

DigitValue(c) ==
    CASE c = "0" -> 0 [] c = "1" -> 1 [] c = "2" -> 2 [] c = "3" -> 3
      [] c = "4" -> 4 [] c = "5" -> 5 [] c = "6" -> 6 [] c = "7" -> 7
      [] c = "8" -> 8 [] c = "9" -> 9

Whitespace == {" "}

RECURSIVE LStrip(_)
LStrip(s) == IF s # "" /\ Head(s) \in Whitespace THEN LStrip(Tail(s)) ELSE s

RECURSIVE RStrip(_)
RStrip(s) ==
    IF s # "" /\ SubSeq(s, Len(s), Len(s)) \in Whitespace
    THEN RStrip(SubSeq(s, 1, Len(s) - 1))
    ELSE s

\* The digit part of an int() argument: digits, single underscores allowed
\* only between two digits.  prev is "" at the start, else the character
\* before s.
RECURSIVE DigitRun(_, _)
DigitRun(s, prev) ==
    IF s = "" THEN prev \in Digits
    ELSE IF Head(s) \in Digits THEN DigitRun(Tail(s), Head(s))
    ELSE IF Head(s) = "_" THEN prev \in Digits /\ DigitRun(Tail(s), "_")
    ELSE FALSE

RECURSIVE DigitRunValue(_, _)
DigitRunValue(s, acc) ==
    IF s = "" THEN acc
    ELSE IF Head(s) = "_" THEN DigitRunValue(Tail(s), acc)
    ELSE DigitRunValue(Tail(s), 10 * acc + DigitValue(Head(s)))

\* int(s), base 10.  [ok |-> FALSE] stands for ValueError.
PyInt(s) ==
    LET t == RStrip(LStrip(s))
        signed == t # "" /\ Head(t) \in {"+", "-"}
        body == IF signed THEN Tail(t) ELSE t
    IN  IF DigitRun(body, "")
        THEN [ok |-> TRUE,
              value |-> IF signed /\ Head(t) = "-"
                        THEN 0 - DigitRunValue(body, 0)
                        ELSE DigitRunValue(body, 0)]
        ELSE [ok |-> FALSE, value |-> 0]

\* str(n) for an integer
RECURSIVE NatToStr(_)
NatToStr(n) ==
    LET d == CHOOSE c \in Digits : DigitValue(c) = n % 10
    IN  IF n < 10 THEN d ELSE NatToStr(n \div 10) \o d

PyStr(n) == IF n < 0 THEN "-" \o NatToStr(0 - n) ELSE NatToStr(n)

(***************************************************************************)
(* The Toolkit pipeline configuration: sgtk.templates, a dict from         *)
(* template name to template, each with its ordered keys                   *)
(***************************************************************************)

StringKey(n) == [name |-> n, type |-> "str", width |-> 0]
IntegerKey(n, w) == [name |-> n, type |-> "int", width |-> w]

TemplateNames == {"work", "area", "root"}

\* tmplt.ordered_keys
ordered_keys(tmplt) ==
    CASE tmplt = "work" -> <<StringKey("Shot"), IntegerKey("version", 3)>>
      [] tmplt = "area" -> <<StringKey("Step")>>
      [] tmplt = "root" -> <<>>

\* The string is the zero-padded canonical text of an integer key's value
Canonical(k, f) ==
    /\ f # ""
    /\ \A i \in 1..Len(f) : SubSeq(f, i, i) \in Digits
    /\ \/ Len(f) = k.width
       \/ Len(f) > k.width /\ Head(f) # "0"

\* k.value_from_str(f), which the parser does not use: it validates the
\* format before converting
value_from_str(k, f) ==
    IF k.type = "int"
    THEN IF Canonical(k, f)
         THEN [ok |-> TRUE, value |-> [int |-> PyInt(f).value]]
         ELSE [ok |-> FALSE, value |-> [int |-> 0]]
    ELSE [ok |-> TRUE, value |-> [str |-> f]]

\* A variant of _as_value that accepts only the text value_from_str
\* accepts
as_value_canonical(k, f) == value_from_str(k, f)

\* k._as_value(f): IntegerKey converts with int(), StringKey keeps the
\* string.  [ok |-> FALSE] stands for the exception int() raises.
as_value(k, f) ==
    IF k.type = "int"
    THEN [ok |-> PyInt(f).ok, value |-> [int |-> PyInt(f).value]]
    ELSE [ok |-> TRUE, value |-> [str |-> f]]

(***************************************************************************)
(* The reference parser                                                    *)
(***************************************************************************)

reference_prefix == "fpt://"

min_num_parts == 2

expected_num_parts == 2

None == [kind |-> "None"]

Raise(e) == [kind |-> "Raise", exc |-> e]

\* _ParsedReference(ref_str, type, fields, template)
ParsedReference(ref_str, type, fields, template) ==
    [kind |-> "Parsed", ref_str |-> ref_str, type |-> type,
     fields |-> fields, template |-> template]

Min(a, b) == IF a < b THEN a ELSE b

\* A variant of isEntityReferenceString that looks for the prefix anywhere
\* in the string (reference_prefix in someString)
isEntityReferenceString_anywhere(someString) ==
    \E i \in 1..(Len(someString) - Len(reference_prefix) + 1) :
        SubSeq(someString, i, i + Len(reference_prefix) - 1) = reference_prefix

\* FPTManagerInterface.isEntityReferenceString
isEntityReferenceString(someString) == StartsWith(someString, reference_prefix)

\* A variant of the __sgtk property that looks for the handle again on
\* every read, whatever __sgtk_lazy holds
Sgtk_rebuilding(lazy, eng, pid) ==
    IF eng THEN "engine.sgtk"
    ELSE IF pid # 0 THEN "sgtk_from_entity"
    ELSE "None"

\* The __sgtk property: the value it returns, which is also the value it
\* leaves in __sgtk_lazy.
Sgtk(lazy, eng, pid) ==
    IF lazy # "None" THEN lazy
    ELSE IF eng THEN "engine.sgtk"
    ELSE IF pid # 0 THEN "sgtk_from_entity"
    ELSE "None"

\* A variant of __parse_asset_reference that only refuses too few parts and
\* ignores the parts after the second
ParseAssetReference_extra_parts(ref_str, parts) ==
    IF Len(parts) < expected_num_parts THEN None
    ELSE IF ~PyInt(parts[2]).ok THEN None
    ELSE ParsedReference(ref_str, "ASSET",
                         [type |-> parts[1], id |-> PyInt(parts[2]).value], "None")

\* FPTManagerInterface.__parse_asset_reference
ParseAssetReference(ref_str, parts) ==
    IF Len(parts) # expected_num_parts THEN None
    ELSE LET obj_type == parts[1]
             ident == PyInt(parts[2])
         IN  IF ~ident.ok THEN None
             ELSE ParsedReference(ref_str, "ASSET",
                                  [type |-> obj_type, id |-> ident.value], "None")

\* A variant of __parse_workfile_reference that refuses a reference whose
\* number of values is not the number of keys, as zip(..., strict=True)
\* would
ParseWorkfileReference_strict(ref_str, parts, sgtk) ==
    IF sgtk = "None" THEN None
    ELSE LET tmplt_key == Head(parts)
             field_values == Tail(parts)
         IN  IF tmplt_key \notin TemplateNames THEN Raise("KeyError")
             ELSE LET keys == ordered_keys(tmplt_key)
                  IN  IF Len(keys) # Len(field_values)
                         \/ \E i \in 1..Len(keys) :
                                ~as_value(keys[i], field_values[i]).ok
                      THEN None
                      ELSE ParsedReference(
                               ref_str, "WORKFILE",
                               [k \in {keys[i].name : i \in 1..Len(keys)} |->
                                   LET i == CHOOSE j \in 1..Len(keys) :
                                                keys[j].name = k
                                   IN  as_value(keys[i], field_values[i]).value],
                               tmplt_key)

\* FPTManagerInterface.__parse_workfile_reference, given the value of the
\* __sgtk property
ParseWorkfileReference(ref_str, parts, sgtk) ==
    IF sgtk = "None" THEN None
    ELSE LET tmplt_key == Head(parts)
             field_values == Tail(parts)
         IN  IF tmplt_key \notin TemplateNames THEN Raise("KeyError")
             ELSE LET keys == ordered_keys(tmplt_key)
                      n == Min(Len(keys), Len(field_values))
                  IN  IF \E i \in 1..n : ~as_value(keys[i], field_values[i]).ok
                      THEN None
                      ELSE ParsedReference(
                               ref_str, "WORKFILE",
                               [k \in {keys[i].name : i \in 1..n} |->
                                   LET i == CHOOSE j \in 1..n : keys[j].name = k
                                   IN  as_value(keys[i], field_values[i]).value],
                               tmplt_key)

\* FPTManagerInterface.__parse_reference, given the value the __sgtk
\* property would return
ParseReference(ref_str, sgtk) ==
    IF ~StartsWith(ref_str, reference_prefix) THEN None
    ELSE LET pieces == Split(DropPrefix(ref_str, Len(reference_prefix)), "/")
             ref_type == Head(pieces)
             parts == Tail(pieces)
         IN  IF Len(parts) < min_num_parts THEN None
             ELSE IF ref_type = "asset" THEN ParseAssetReference(ref_str, parts)
             ELSE IF ref_type = "workfile"
                  THEN ParseWorkfileReference(ref_str, parts, sgtk)
             ELSE None

\* __parse_reference reads the __sgtk property (and so may construct the
\* handle) exactly for workfile references with enough parts
ReadsSgtk(ref_str) ==
    /\ StartsWith(ref_str, reference_prefix)
    /\ LET pieces == Split(DropPrefix(ref_str, Len(reference_prefix)), "/")
       IN  Len(pieces) - 1 >= min_num_parts /\ Head(pieces) = "workfile"

(***************************************************************************)
(* Traits, trait data and batch element errors                             *)
(***************************************************************************)

LocatableContentTrait == "LocatableContent"
DisplayNameTrait == "DisplayName"
EntityTrait == "Entity"
FrameRangedTrait == "FrameRanged"
ManagedTrait == "Managed"
\* The class WorkTrait itself, which is what managementPolicy looks for in
\* a trait set, and its trait id
WorkTrait == "<class WorkTrait>"
WorkTrait_kId == "Work"

kEntityAccessError == "kEntityAccessError"
kMalformedEntityReference == "kMalformedEntityReference"
kEntityResolutionError == "kEntityResolutionError"

kRead == "kRead"

\* TraitsData(): the imbued traits and the properties that are set ("" and
\* a missing frames entry stand for an unset property)
TraitsData == [traits |-> {}, location |-> "", name |-> "", frames |-> <<>>]

\* errorCallback(idx, BatchElementError(code, message))
ErrorCallback(idx, code, message) ==
    [idx |-> idx, cb |-> "error", code |-> code, message |-> message,
     traits |-> {}, data |-> TraitsData]

\* successCallback(idx, result) of entityTraits (a trait set) and of
\* resolve (a TraitsData)
SuccessCallback(idx, traits, data) ==
    [idx |-> idx, cb |-> "success", code |-> "", message |-> "",
     traits |-> traits, data |-> data]

\* FileUrlPathConverter.pathToUrl for a POSIX path: only absolute paths
\* convert
pathToUrl(path) ==
    IF path # "" /\ Head(path) = "/"
    THEN [ok |-> TRUE, url |-> "file://" \o path]
    ELSE [ok |-> FALSE, url |-> ""]

(***************************************************************************)
(* The FPT server as seen through the client's find_one                    *)
(***************************************************************************)

\* Entity types of the site's schema; a query for any other type is
\* answered with a fault
SchemaTypes == {"PublishedFile", "Version"}

NoPath == [present |-> FALSE, local_path |-> "", url |-> ""]
NoUpload == [present |-> FALSE, url |-> ""]
NoFrame == [present |-> FALSE, value |-> 0]

\* A record none of whose fields has a value
BlankRecord ==
    [path |-> NoPath, sg_path_to_frames |-> "", sg_path_to_geometry |-> "",
     sg_path_to_movie |-> "", sg_uploaded_movie |-> NoUpload, name |-> "",
     sg_cut_in |-> NoFrame, sg_cut_out |-> NoFrame,
     sg_head_in |-> NoFrame, sg_tail_out |-> NoFrame]

RecordKeys == {<<"PublishedFile", 123>>, <<"Version", 7>>}

\* The records of the site
Record(key) ==
    IF key = <<"PublishedFile", 123>>
    THEN [BlankRecord EXCEPT
            !.path = [present |-> TRUE, local_path |-> "/mnt/proj/a.ma",
                      url |-> "file:///mnt/proj/a.ma"],
            !.name = "shotA_v001"]
    ELSE [BlankRecord EXCEPT
            !.sg_path_to_frames = "/mnt/proj/f.exr",
            !.name = "v7",
            !.sg_cut_in = [present |-> TRUE, value |-> 1001],
            !.sg_cut_out = [present |-> TRUE, value |-> 1010]]

\* The site the manager is used with
Site == [key \in RecordKeys |-> Record(key)]

Range(seq) == {seq[i] : i \in 1..Len(seq)}

\* A variant of the server's answer that carries every field of the
\* record, whatever fields were asked for
Project_whole_record(rec, fields) == rec

\* The dict find_one returns: only the requested fields carry values
Project(rec, fields) ==
    LET f == Range(fields)
        frame(n, v) == IF n \in f THEN v ELSE NoFrame
    IN  [path |-> IF "path" \in f THEN rec.path ELSE NoPath,
         sg_path_to_frames |->
             IF "sg_path_to_frames" \in f THEN rec.sg_path_to_frames ELSE "",
         sg_path_to_geometry |->
             IF "sg_path_to_geometry" \in f THEN rec.sg_path_to_geometry ELSE "",
         sg_path_to_movie |->
             IF "sg_path_to_movie" \in f THEN rec.sg_path_to_movie ELSE "",
         sg_uploaded_movie |->
             IF "sg_uploaded_movie" \in f THEN rec.sg_uploaded_movie ELSE NoUpload,
         name |-> IF "name" \in f THEN rec.name ELSE "",
         sg_cut_in |-> frame("entity.Shot.sg_cut_in", rec.sg_cut_in),
         sg_cut_out |-> frame("entity.Shot.sg_cut_out", rec.sg_cut_out),
         sg_head_in |-> frame("entity.Shot.sg_head_in", rec.sg_head_in),
         sg_tail_out |-> frame("entity.Shot.sg_tail_out", rec.sg_tail_out)]

\* self.__sgclient.find_one(entity_type, [["id", "is", id]], fields)
find_one(up, entity_type, id, fields) ==
    IF ~up THEN Raise("ProtocolError")
    ELSE IF entity_type \notin SchemaTypes THEN Raise("Fault")
    ELSE IF <<entity_type, id>> \in RecordKeys
         THEN [kind |-> "Record",
               data |-> Project(site[<<entity_type, id>>], fields)]
         ELSE None

(***************************************************************************)
(* resolve and entityTraits                                                *)
(***************************************************************************)

\* The state threaded through one batch call: the lazily built handle, the
\* callbacks made so far, the find_one calls made so far, the outcome of
\* each __parse_reference call, and the exception that ended the call ("" if
\* none)
Context(lazy) ==
    [lazy |-> lazy, cbs |-> <<>>, queries |-> <<>>, parses |-> <<>>,
     raised |-> ""]

Query(idx, parsed_ref, fields, answer) ==
    [idx |-> idx, type |-> parsed_ref.fields.type, id |-> parsed_ref.fields.id,
     fields |-> fields, answer |-> answer.kind]

\* f"Entity '{ref_str}' not found"
NotFoundMessage(ref_str) == "Entity '" \o ref_str \o "' not found"

\* The field list resolve computes from the requested trait set
ResolveFields(traitSet) ==
    (IF LocatableContentTrait \in traitSet
     THEN <<"path", "sg_path_to_movie", "sg_path_to_geometry",
            "sg_path_to_frames", "sg_uploaded_movie">>
     ELSE <<>>)
    \o (IF DisplayNameTrait \in traitSet THEN <<"name">> ELSE <<>>)
    \o (IF FrameRangedTrait \in traitSet
        THEN <<"entity.Shot.sg_cut_in", "entity.Shot.sg_cut_out",
               "entity.Shot.sg_head_in", "entity.Shot.sg_tail_out">>
        ELSE <<>>)

\* A variant that prefers the geometry path to the frames path
AssetLocation_geometry_first(asset_data) ==
    LET renders == IF asset_data.sg_path_to_geometry # ""
                   THEN asset_data.sg_path_to_geometry
                   ELSE IF asset_data.sg_path_to_frames # ""
                   THEN asset_data.sg_path_to_frames
                   ELSE asset_data.sg_path_to_movie
    IN  IF asset_data.path.present
        THEN IF asset_data.path.local_path # ""
             THEN [imbued |-> TRUE, raised |-> FALSE,
                   location |-> pathToUrl(asset_data.path.local_path).url]
             ELSE [imbued |-> TRUE, location |-> asset_data.path.url,
                   raised |-> FALSE]
        ELSE IF renders # ""
        THEN [imbued |-> TRUE, location |-> pathToUrl(renders).url,
              raised |-> FALSE]
        ELSE [imbued |-> asset_data.sg_uploaded_movie.present,
              location |-> asset_data.sg_uploaded_movie.url, raised |-> FALSE]

\* A variant that leaves the trait out when the path object has neither a
\* local path nor a url
AssetLocation_not_imbued(asset_data) ==
    LET renders == IF asset_data.sg_path_to_frames # ""
                   THEN asset_data.sg_path_to_frames
                   ELSE IF asset_data.sg_path_to_geometry # ""
                   THEN asset_data.sg_path_to_geometry
                   ELSE asset_data.sg_path_to_movie
    IN  IF asset_data.path.present
        THEN IF asset_data.path.local_path # ""
             THEN [imbued |-> TRUE, raised |-> FALSE,
                   location |-> pathToUrl(asset_data.path.local_path).url]
             ELSE [imbued |-> asset_data.path.url # "",
                   location |-> asset_data.path.url, raised |-> FALSE]
        ELSE IF renders # ""
        THEN [imbued |-> TRUE, location |-> pathToUrl(renders).url,
              raised |-> FALSE]
        ELSE [imbued |-> asset_data.sg_uploaded_movie.present,
              location |-> asset_data.sg_uploaded_movie.url, raised |-> FALSE]

\* The location part of __resolve_asset: whether LocatableContent is
\* imbued, the location set (if any), and whether pathToUrl raised
AssetLocation(asset_data) ==
    LET renders == IF asset_data.sg_path_to_frames # ""
                   THEN asset_data.sg_path_to_frames
                   ELSE IF asset_data.sg_path_to_geometry # ""
                   THEN asset_data.sg_path_to_geometry
                   ELSE asset_data.sg_path_to_movie
        viaPath(p) == [imbued |-> pathToUrl(p).ok, location |-> pathToUrl(p).url,
                       raised |-> ~pathToUrl(p).ok]
    IN  IF asset_data.path.present
        THEN IF asset_data.path.local_path # ""
             THEN viaPath(asset_data.path.local_path)
             ELSE IF asset_data.path.url # ""
             THEN [imbued |-> TRUE, location |-> asset_data.path.url,
                   raised |-> FALSE]
             ELSE [imbued |-> TRUE, location |-> "", raised |-> FALSE]
        ELSE IF renders # "" THEN viaPath(renders)
        ELSE IF asset_data.sg_uploaded_movie.present
        THEN [imbued |-> TRUE, location |-> asset_data.sg_uploaded_movie.url,
              raised |-> FALSE]
        ELSE [imbued |-> FALSE, location |-> "", raised |-> FALSE]

\* The frame-range properties __resolve_asset sets: those whose field is
\* truthy
AssetFrames(asset_data) ==
    LET field(p) == CASE p = "startFrame" -> asset_data.sg_head_in
                      [] p = "endFrame" -> asset_data.sg_tail_out
                      [] p = "inFrame" -> asset_data.sg_cut_in
                      [] p = "outFrame" -> asset_data.sg_cut_out
        set == {p \in {"startFrame", "endFrame", "inFrame", "outFrame"} :
                   field(p).present /\ field(p).value # 0}
    IN  [p \in set |-> field(p).value]

\* The TraitsData __resolve_asset builds from a found record
AssetTraitsData(asset_data) ==
    LET loc == AssetLocation(asset_data)
        frames == AssetFrames(asset_data)
    IN  [traits |-> (IF loc.imbued THEN {LocatableContentTrait} ELSE {})
                    \cup (IF asset_data.name # "" THEN {DisplayNameTrait} ELSE {})
                    \cup (IF DOMAIN frames # {} THEN {FrameRangedTrait} ELSE {}),
         location |-> loc.location,
         name |-> asset_data.name,
         frames |-> frames]

\* FPTManagerInterface.__resolve_asset
ResolveAsset(ctx, idx, parsed_ref, fields) ==
    LET asset_data == find_one(online, parsed_ref.fields.type,
                               parsed_ref.fields.id, fields)
        c == [ctx EXCEPT !.queries =
                  Append(@, Query(idx, parsed_ref, fields, asset_data))]
    IN  IF asset_data.kind = "Raise" THEN [c EXCEPT !.raised = asset_data.exc]
        ELSE IF asset_data.kind = "None"
        THEN [c EXCEPT !.cbs = Append(@, ErrorCallback(
                  idx, kEntityResolutionError,
                  NotFoundMessage(parsed_ref.ref_str)))]
        ELSE IF AssetLocation(asset_data.data).raised
        THEN [c EXCEPT !.raised = "InputValidationException"]
        ELSE [c EXCEPT !.cbs = Append(@, SuccessCallback(
                  idx, {}, AssetTraitsData(asset_data.data)))]

\* str_from_value of an integer key: zero padded to the key's width
RECURSIVE ZeroPad(_, _)
ZeroPad(s, w) == IF Len(s) >= w THEN s ELSE ZeroPad("0" \o s, w)

FieldText(k, v) ==
    IF k.type = "int"
    THEN (IF v.int < 0 THEN "-" ELSE "")
         \o ZeroPad(PyStr(IF v.int < 0 THEN 0 - v.int ELSE v.int), k.width)
    ELSE v.str

\* tmplt.apply_fields(fields): the path of the template with every key
\* replaced by its value; a key without a value is an error
apply_fields(tmplt, fields) ==
    LET keys == ordered_keys(tmplt)
        text(i) == FieldText(keys[i], fields[keys[i].name])
    IN  IF \E i \in 1..Len(keys) : keys[i].name \notin DOMAIN fields
        THEN [ok |-> FALSE, path |-> ""]
        ELSE [ok |-> TRUE,
              path |-> CASE tmplt = "work" ->
                            "/proj/" \o text(1) \o "/v" \o text(2) \o ".ma"
                         [] tmplt = "area" -> "/proj/" \o text(1)
                         [] tmplt = "root" -> "/proj"]

\* The workfile branch of resolve
ResolveWorkfile(ctx, idx, parsed_ref, traitSet) ==
    LET path == apply_fields(parsed_ref.template, parsed_ref.fields)
    IN  IF LocatableContentTrait \notin traitSet
        THEN [ctx EXCEPT !.cbs = Append(@, SuccessCallback(idx, {}, TraitsData))]
        ELSE IF ~path.ok THEN [ctx EXCEPT !.raised = "TankError"]
        ELSE [ctx EXCEPT !.cbs = Append(@, SuccessCallback(
                  idx, {},
                  [TraitsData EXCEPT !.traits = {LocatableContentTrait},
                                     !.location = pathToUrl(path.path).url]))]

\* A variant in which the parser works with the handle that was held when
\* the call began, while the handle it finds is kept for the next call
Parsed_stale(ctx, ref_str) ==
    LET lazy == IF ReadsSgtk(ref_str) THEN Sgtk(ctx.lazy, engine, project_id)
                ELSE ctx.lazy
    IN  [lazy |-> lazy, ref |-> ParseReference(ref_str, ctx.lazy)]

\* The call of __parse_reference at the head of each loop body, with the
\* effect of the __sgtk property on __sgtk_lazy
Parsed(ctx, ref_str) ==
    LET lazy == IF ReadsSgtk(ref_str) THEN Sgtk(ctx.lazy, engine, project_id)
                ELSE ctx.lazy
    IN  [lazy |-> lazy, ref |-> ParseReference(ref_str, lazy)]

MalformedCallback(idx) ==
    ErrorCallback(idx, kMalformedEntityReference, "Entity identifier is malformed")

\* One iteration of the loop of resolve
ResolveItem(ctx, idx, ref_str, traitSet, fields) ==
    LET p == Parsed(ctx, ref_str)
        parsed_ref == p.ref
        c == [ctx EXCEPT !.lazy = p.lazy,
                         !.parses = Append(@, [idx |-> idx, kind |-> parsed_ref.kind])]
    IN  IF parsed_ref.kind = "Raise" THEN [c EXCEPT !.raised = parsed_ref.exc]
        ELSE IF parsed_ref.kind = "None"
        THEN [c EXCEPT !.cbs = Append(@, MalformedCallback(idx))]
        ELSE IF parsed_ref.type = "ASSET"
        THEN ResolveAsset(c, idx, parsed_ref, fields)
        ELSE ResolveWorkfile(c, idx, parsed_ref, traitSet)

\* One iteration of the loop of entityTraits
EntityTraitsItem(ctx, idx, ref_str) ==
    LET p == Parsed(ctx, ref_str)
        parsed_ref == p.ref
        c == [ctx EXCEPT !.lazy = p.lazy,
                         !.parses = Append(@, [idx |-> idx, kind |-> parsed_ref.kind])]
        asset == find_one(online, parsed_ref.fields.type,
                          parsed_ref.fields.id, <<>>)
        q == [c EXCEPT !.queries = Append(@, Query(idx, parsed_ref, <<>>, asset))]
    IN  IF parsed_ref.kind = "Raise" THEN [c EXCEPT !.raised = parsed_ref.exc]
        ELSE IF parsed_ref.kind = "None"
        THEN [c EXCEPT !.cbs = Append(@, MalformedCallback(idx))]
        ELSE IF parsed_ref.type = "ASSET"
        THEN IF asset.kind = "Raise" THEN [q EXCEPT !.raised = asset.exc]
             ELSE IF asset.kind = "None"
             THEN [q EXCEPT !.cbs = Append(@, ErrorCallback(
                       idx, kEntityResolutionError, NotFoundMessage(ref_str)))]
             ELSE [q EXCEPT !.cbs = Append(@, SuccessCallback(
                       idx, {EntityTrait, LocatableContentTrait, DisplayNameTrait},
                       TraitsData))]
        ELSE [c EXCEPT !.cbs = Append(@, SuccessCallback(
                  idx, {EntityTrait, LocatableContentTrait}, TraitsData))]

\* The item of the batch at 0-based index idx, for either operation
BatchItem(op, ctx, idx, ref_str, traitSet) ==
    IF op = "resolve"
    THEN ResolveItem(ctx, idx, ref_str, traitSet, ResolveFields(traitSet))
    ELSE EntityTraitsItem(ctx, idx, ref_str)

\* for idx, ref in enumerate(entityReferences), from 0-based index idx on;
\* an exception ends the loop
RECURSIVE BatchLoop(_, _, _, _, _)
BatchLoop(op, ctx, entityReferences, idx, traitSet) ==
    IF ctx.raised # "" \/ idx >= Len(entityReferences) THEN ctx
    ELSE BatchLoop(op,
                   BatchItem(op, ctx, idx, entityReferences[idx + 1], traitSet),
                   entityReferences, idx + 1, traitSet)

\* The branch of resolve and entityTraits for an access mode other than
\* read: one access error per item
RECURSIVE ReadOnlyLoop(_, _, _)
ReadOnlyLoop(ctx, entityReferences, idx) ==
    IF idx >= Len(entityReferences) THEN ctx
    ELSE ReadOnlyLoop(
             [ctx EXCEPT !.cbs = Append(@, ErrorCallback(
                  idx, kEntityAccessError, "Entities are read-only"))],
             entityReferences, idx + 1)

\* A variant of the access gate that refuses only kWrite
Batch_refusing_kWrite(op, lazy, entityReferences, traitSet, access) ==
    IF access = "kWrite" THEN ReadOnlyLoop(Context(lazy), entityReferences, 0)
    ELSE BatchLoop(op, Context(lazy), entityReferences, 0, traitSet)

\* The whole of resolve or entityTraits
Batch(op, lazy, entityReferences, traitSet, access) ==
    IF access # kRead THEN ReadOnlyLoop(Context(lazy), entityReferences, 0)
    ELSE BatchLoop(op, Context(lazy), entityReferences, 0, traitSet)

(***************************************************************************)
(* managementPolicy                                                        *)
(***************************************************************************)

\* The body of the loop of managementPolicy: the traits imbued to the
\* policy of one trait set
PolicyRules(trait_set, policy) ==
    LET a == IF LocatableContentTrait \in trait_set
             THEN policy \cup {ManagedTrait, LocatableContentTrait}
             ELSE policy
        b == IF WorkTrait \notin trait_set /\ DisplayNameTrait \in trait_set
             THEN a \cup {ManagedTrait, DisplayNameTrait}
             ELSE a
    IN  IF FrameRangedTrait \in trait_set
        THEN b \cup {ManagedTrait, FrameRangedTrait}
        ELSE b

\* A variant in which every trait set is given the same policy object, as
\* [TraitsData()] * len(traitSets) would
RECURSIVE SharedPolicy(_, _)
SharedPolicy(traitSets, policy) ==
    IF traitSets = <<>> THEN policy
    ELSE SharedPolicy(Tail(traitSets), PolicyRules(Head(traitSets), policy))

ManagementPolicy_shared_policy(traitSets, policyAccess) ==
    [i \in 1..Len(traitSets) |->
        IF policyAccess # kRead THEN {} ELSE SharedPolicy(traitSets, {})]

\* A variant of the access gate that refuses only kWrite
ManagementPolicy_refusing_kWrite(traitSets, policyAccess) ==
    [i \in 1..Len(traitSets) |->
        IF policyAccess = "kWrite" THEN {} ELSE PolicyRules(traitSets[i], {})]

\* FPTManagerInterface.managementPolicy: one policy (the set of traits
\* imbued to a fresh TraitsData) per trait set
ManagementPolicy(traitSets, policyAccess) ==
    [i \in 1..Len(traitSets) |->
        IF policyAccess # kRead THEN {} ELSE PolicyRules(traitSets[i], {})]

(***************************************************************************)
(* The manager instance: its operations as actions                         *)
(***************************************************************************)

\* Bounds of the inputs
MaxBatch == 2
MaxParts == 3

\* Reference strings given to the batch operations
Refs ==
    {"fpt://asset/PublishedFile/123",        \* an existing record
     "fpt://asset/PublishedFile/0456",       \* no such record
     "fpt://asset/PublishedFile/123/extra",  \* an extra path component
     "fpt://asset/Bogus/1",                  \* no such entity type
     "not a reference",
     "fpt://workfile/work/s10/3",            \* a template and its fields
     "fpt://workfile/work/s10",              \* fewer fields than the template
     "fpt://workfile/nope/s10/3"}            \* no such template

Batches == UNION {[1..n -> Refs] : n \in 0..MaxBatch}

\* Trait sets requested of resolve
TraitSets ==
    {{LocatableContentTrait, DisplayNameTrait}, {FrameRangedTrait}}

\* ResolveAccess and EntityTraitsAccess
AccessModes(op) ==
    IF op = "resolve" THEN {kRead, "kManagerDrivenWrite"} ELSE {kRead, "kWrite"}

NoCall ==
    [op |-> "none", entityReferences |-> <<>>, traitSet |-> {}, access |-> kRead,
     lazy |-> "None", cbs |-> <<>>, queries |-> <<>>, parses |-> <<>>,
     raised |-> "",
     traitSets |-> <<>>, policies |-> <<>>, someString |-> "", isref |-> FALSE]

NoProbe ==
    [op |-> "none", head |-> "", parts |-> <<>>, ref_str |-> "",
     isref |-> FALSE, result |-> None,
     traitSets |-> <<>>, policyAccess |-> kRead, policies |-> <<>>]

\* self.__settings after construction: the empty dict
NoSettings == [k \in {} |-> 0]

\* dict.update
update(d, other) ==
    [k \in DOMAIN d \cup DOMAIN other |->
        IF k \in DOMAIN other THEN other[k] ELSE d[k]]

\* self.__settings.get("project_id") or None, with 0 for None
get_project_id(d) == IF "project_id" \in DOMAIN d THEN d.project_id ELSE 0

\* The managerSettings a host passes to initialize: a project_id of None
\* (0) or the id of a project
ManagerSettings == {[project_id |-> 0], [project_id |-> 7]}

\* No widget of the UI delegate exists
NoUi == [op |-> "none"]

\* The record of a batch call that has returned (or raised)
Returned(op, entityReferences, traitSet, access, lazy, ctx) ==
    [NoCall EXCEPT
        !.op = op, !.entityReferences = entityReferences, !.traitSet = traitSet,
        !.access = access, !.lazy = lazy, !.cbs = ctx.cbs,
        !.queries = ctx.queries, !.parses = ctx.parses, !.raised = ctx.raised]

Init ==
    /\ sgclient = "None"
    /\ sgtk_lazy = "None"
    /\ project_id = 0
    /\ engine \in BOOLEAN
    /\ online = TRUE
    /\ call = NoCall
    /\ probe = NoProbe
    /\ site = Site
    /\ settings = NoSettings
    /\ ui = NoUi

\* Shotgun(...): an object other than the one self.__sgclient holds
Shotgun(held) == IF held = "Shotgun 1" THEN "Shotgun 2" ELSE "Shotgun 1"

\* FPTManagerInterface.initialize: managerSettings and whether Shotgun(...)
\* and connect() succeed are inputs
Initialize(managerSettings, outcome) ==
    /\ call = NoCall
    /\ settings' = update(settings, managerSettings)
    /\ project_id' = get_project_id(settings')
    /\ sgtk_lazy' = "None"
    /\ sgclient' = IF outcome = "Shotgun raises" THEN sgclient
                   ELSE Shotgun(sgclient)
    /\ UNCHANGED <<engine, online, call, probe, site, ui>>

\* FPTManagerInterface.resolve and FPTManagerInterface.entityTraits.  The
\* host has initialized the manager before it calls them.
BatchCall(op, entityReferences, traitSet, access) ==
    /\ call = NoCall
    /\ sgclient # "None"
    /\ LET ctx == Batch(op, sgtk_lazy, entityReferences, traitSet, access)
       IN  /\ sgtk_lazy' = ctx.lazy
           /\ call' = Returned(op, entityReferences, traitSet, access,
                               sgtk_lazy, ctx)
    /\ UNCHANGED <<sgclient, project_id, engine, online, probe, site, settings, ui>>

Resolve ==
    \E refs \in Batches, traitSet \in TraitSets, access \in AccessModes("resolve") :
        BatchCall("resolve", refs, traitSet, access)

EntityTraits ==
    \E refs \in Batches, access \in AccessModes("entityTraits") :
        BatchCall("entityTraits", refs, {}, access)

\* Arguments the host gives managementPolicy between its batch calls
HostPolicyTraitSets ==
    {<<{LocatableContentTrait, DisplayNameTrait}>>,
     <<{WorkTrait_kId, DisplayNameTrait}, {FrameRangedTrait}>>}

\* FPTManagerInterface.managementPolicy
ManagementPolicyCall ==
    /\ call = NoCall
    /\ sgclient # "None"
    /\ \E traitSets \in HostPolicyTraitSets, policyAccess \in {kRead, "kWrite"} :
           call' = [NoCall EXCEPT
                       !.op = "managementPolicy", !.traitSets = traitSets,
                       !.access = policyAccess, !.lazy = sgtk_lazy,
                       !.policies = ManagementPolicy(traitSets, policyAccess)]
    /\ UNCHANGED <<sgclient, sgtk_lazy, project_id, engine, online, probe, site,
                   settings, ui>>

\* Strings the host gives isEntityReferenceString between its batch calls
HostStrings ==
    {"fpt://asset/PublishedFile/123", "fpt://workfile/work/s10/3",
     "not a reference"}

\* FPTManagerInterface.isEntityReferenceString
IsEntityReferenceStringCall ==
    /\ call = NoCall
    /\ sgclient # "None"
    /\ \E someString \in HostStrings :
           call' = [NoCall EXCEPT
                       !.op = "isEntityReferenceString",
                       !.someString = someString, !.lazy = sgtk_lazy,
                       !.isref = isEntityReferenceString(someString)]
    /\ UNCHANGED <<sgclient, sgtk_lazy, project_id, engine, online, probe, site,
                   settings, ui>>

\* The host takes the callbacks of the call and goes on
HostContinues ==
    /\ call # NoCall
    /\ call' = NoCall
    /\ UNCHANGED <<sgclient, sgtk_lazy, project_id, engine, online, probe, site, settings, ui>>

\* A Toolkit engine starts or stops in the host process
EngineChanges ==
    /\ call = NoCall
    /\ engine' = ~engine
    /\ UNCHANGED <<sgclient, sgtk_lazy, project_id, online, call, probe, site, settings, ui>>

\* The FPT server becomes unreachable or reachable
ServerChanges ==
    /\ call = NoCall
    /\ online' = ~online
    /\ UNCHANGED <<sgclient, sgtk_lazy, project_id, engine, call, probe, site, settings, ui>>

Next ==
    \/ \E managerSettings \in ManagerSettings,
          outcome \in {"ok", "Shotgun raises", "connect raises"} :
           Initialize(managerSettings, outcome)
    \/ Resolve
    \/ EntityTraits
    \/ ManagementPolicyCall
    \/ IsEntityReferenceStringCall
    \/ HostContinues
    \/ EngineChanges
    \/ ServerChanges

Spec == Init /\ [][Next]_vars

(***************************************************************************)
(* The parser and isEntityReferenceString applied to strings built from a  *)
(* head and up to MaxParts path segments                                   *)
(***************************************************************************)

Heads ==
    {"fpt://asset", "fpt://workfile", "fpt://assets", "fpt://",
     "fpt:/asset", "asset", "xfpt://workfile"}

Segments ==
    {"work", "area", "nope", "s10", "12", "007", "-3", " 5", "1_0", "1x", ""}

PartLists == UNION {[1..n -> Segments] : n \in 0..MaxParts}

RECURSIVE Join(_)
Join(parts) == IF parts = <<>> THEN "" ELSE "/" \o Head(parts) \o Join(Tail(parts))

InitParse ==
    /\ sgclient = "None"
    /\ sgtk_lazy = "None"
    /\ project_id = 0
    /\ engine \in BOOLEAN
    /\ online = TRUE
    /\ call = NoCall
    /\ site = Site
    /\ settings = NoSettings
    /\ ui = NoUi
    /\ \E head \in Heads, parts \in PartLists :
           probe = [NoProbe EXCEPT !.op = "input", !.head = head, !.parts = parts,
                                   !.ref_str = head \o Join(parts)]

\* isEntityReferenceString(probe.ref_str)
IsEntityReferenceStringStep ==
    /\ probe.op = "input"
    /\ probe' = [probe EXCEPT !.op = "isEntityReferenceString",
                              !.isref = isEntityReferenceString(probe.ref_str)]
    /\ UNCHANGED <<sgclient, sgtk_lazy, project_id, engine, online, call, site, settings, ui>>

\* __parse_reference(probe.ref_str)
ParseReferenceStep ==
    /\ probe.op = "isEntityReferenceString"
    /\ LET p == Parsed(Context(sgtk_lazy), probe.ref_str)
       IN  /\ sgtk_lazy' = p.lazy
           /\ probe' = [probe EXCEPT !.op = "__parse_reference", !.result = p.ref]
    /\ UNCHANGED <<sgclient, project_id, engine, online, call, site, settings, ui>>

NextParse == IsEntityReferenceStringStep \/ ParseReferenceStep

SpecParse == InitParse /\ [][NextParse]_vars

(***************************************************************************)
(* resolve of one database reference against every shape of record         *)
(***************************************************************************)

VersionKey == <<"Version", 7>>
VersionRef == "fpt://asset/Version/7"

\* The values a record of the site can have in the fields resolve asks for
RecordShapes ==
    [path : {NoPath,
             [present |-> TRUE, local_path |-> "/mnt/proj/a.ma",
              url |-> "file:///mnt/proj/a.ma"],
             [present |-> TRUE, local_path |-> "",
              url |-> "https://fpt.example/a.ma"],
             [present |-> TRUE, local_path |-> "", url |-> ""]},
     sg_path_to_frames : {"", "/mnt/proj/f.exr"},
     sg_path_to_geometry : {"", "/mnt/proj/g.abc"},
     sg_path_to_movie : {"", "/mnt/proj/m.mov"},
     sg_uploaded_movie : {NoUpload,
                          [present |-> TRUE, url |-> "https://fpt.example/m.mp4"]},
     name : {"", "v7"},
     sg_cut_in : {NoFrame, [present |-> TRUE, value |-> 1001]},
     sg_cut_out : {NoFrame, [present |-> TRUE, value |-> 1010]},
     sg_head_in : {NoFrame, [present |-> TRUE, value |-> 0],
                   [present |-> TRUE, value |-> 993]},
     sg_tail_out : {NoFrame, [present |-> TRUE, value |-> 1018]}]

\* The trait sets a host can ask resolve for, of the traits it looks at
ResolveTraitSets ==
    SUBSET {LocatableContentTrait, DisplayNameTrait, FrameRangedTrait}

InitAsset ==
    /\ sgclient = "None"
    /\ sgtk_lazy = "None"
    /\ project_id = 0
    /\ engine = FALSE
    /\ online = TRUE
    /\ call = NoCall
    /\ probe = NoProbe
    /\ \E shape \in RecordShapes : site = [Site EXCEPT ![VersionKey] = shape]
    /\ settings = NoSettings
    /\ ui = NoUi

\* resolve([VersionRef], traitSet, kRead, ...)
ResolveRecord ==
    \E traitSet \in ResolveTraitSets :
        BatchCall("resolve", <<VersionRef>>, traitSet, kRead)

NextAsset ==
    \/ Initialize([project_id |-> 0], "ok")
    \/ ResolveRecord

SpecAsset == InitAsset /\ [][NextAsset]_vars

(***************************************************************************)
(* managementPolicy applied to up to MaxTraitSets trait sets               *)
(***************************************************************************)

MaxTraitSets == 2

\* The trait ids a host asks about
PolicyTraitIds ==
    {LocatableContentTrait, DisplayNameTrait, FrameRangedTrait, WorkTrait_kId}

PolicyTraitSets == UNION {[1..n -> SUBSET PolicyTraitIds] : n \in 0..MaxTraitSets}

\* PolicyAccess
PolicyAccessModes == {kRead, "kWrite", "kCreateRelated"}

InitPolicy ==
    /\ sgclient = "None"
    /\ sgtk_lazy = "None"
    /\ project_id = 0
    /\ engine \in BOOLEAN
    /\ online = TRUE
    /\ call = NoCall
    /\ site = Site
    /\ settings = NoSettings
    /\ ui = NoUi
    /\ \E traitSets \in PolicyTraitSets, policyAccess \in PolicyAccessModes :
           probe = [NoProbe EXCEPT !.op = "input", !.traitSets = traitSets,
                                   !.policyAccess = policyAccess]

\* managementPolicy(probe.traitSets, probe.policyAccess)
ManagementPolicyStep ==
    /\ probe.op = "input"
    /\ probe' = [probe EXCEPT
                    !.op = "managementPolicy",
                    !.policies = ManagementPolicy(probe.traitSets,
                                                  probe.policyAccess)]
    /\ UNCHANGED <<sgclient, sgtk_lazy, project_id, engine, online, call, site, settings, ui>>

NextPolicy == ManagementPolicyStep

SpecPolicy == InitPolicy /\ [][NextPolicy]_vars

(***************************************************************************)
(* Properties                                                              *)
(***************************************************************************)

BatchReturned == call.op \in {"resolve", "entityTraits"}

ReadCall == BatchReturned /\ call.access = kRead

\* The callbacks of the returned call made for the 0-based index idx
CallbacksFor(idx) == {i \in 1..Len(call.cbs) : call.cbs[i].idx = idx}

\* C1: resolve and entityTraits make exactly one callback for each index
\* 0..N-1 of the N references, in increasing index order, whatever the
\* access mode and the state of the backend.
C1_ExactlyOneCallbackPerIndex ==
    BatchReturned =>
        /\ Len(call.cbs) = Len(call.entityReferences)
        /\ \A i \in 1..Len(call.cbs) : call.cbs[i].idx = i - 1

\* C2: with an access mode other than read, every item gets the error
\* callback with kEntityAccessError and "Entities are read-only", in index
\* order; no reference is parsed, no find_one call is made and the Toolkit
\* handle is neither read nor constructed.
C2_NonReadAccessIsRefused ==
    (BatchReturned /\ call.access # kRead) =>
        /\ Len(call.cbs) = Len(call.entityReferences)
        /\ \A i \in 1..Len(call.cbs) :
               call.cbs[i] = [idx |-> i - 1, cb |-> "error",
                              code |-> kEntityAccessError,
                              message |-> "Entities are read-only",
                              traits |-> {}, data |-> TraitsData]
        /\ call.parses = <<>>
        /\ call.queries = <<>>
        /\ call.raised = ""
        /\ sgtk_lazy = call.lazy

\* A write-access resolve of a workfile and a database reference, made
\* while an engine is running and no handle has been built yet
C2_Witness ==
    /\ call.op = "resolve"
    /\ call.access = "kManagerDrivenWrite"
    /\ call.entityReferences =
           <<"fpt://workfile/work/s10/3", "fpt://asset/PublishedFile/123">>
    /\ engine
    /\ call.lazy = "None"
    /\ Len(call.cbs) = 2

\* The exceptions of a failed lookup
LookupErrors == {"Fault", "ProtocolError"}

\* C3: a find_one call that raises is reported through the error callback
\* of its item only, the item is not queried again, the other items of the
\* batch are still processed, and the failure does not leave the batch
\* operation as an exception.  (The exception of a failed parse is the
\* subject of C6.)
C3_LookupFailureIsPerItemError ==
    BatchReturned =>
        /\ call.raised \notin LookupErrors
        /\ \A q \in 1..Len(call.queries) :
               call.queries[q].answer = "Raise" =>
                   /\ \E i \in CallbacksFor(call.queries[q].idx) :
                          call.cbs[i].cb = "error"
                   /\ Len(call.cbs) = Len(call.entityReferences)
        /\ \A q1, q2 \in 1..Len(call.queries) :
               call.queries[q1].idx = call.queries[q2].idx => q1 = q2

SchemeChars == <<"f", "p", "t", ":", "/", "/">>

\* The string begins with the characters f p t : / /
BeginsWithScheme(s) ==
    /\ Len(s) >= Len(SchemeChars)
    /\ \A i \in 1..Len(SchemeChars) : SubSeq(s, i, i) = SchemeChars[i]

\* C4: isEntityReferenceString is true exactly of the strings that start
\* with "fpt://"; the parser returns none for every string that does not
\* start with it, so every string the parser accepts is one
\* isEntityReferenceString accepts.
C4_PrefixGate ==
    /\ probe.op \in {"isEntityReferenceString", "__parse_reference"} =>
           probe.isref = BeginsWithScheme(probe.ref_str)
    /\ probe.op = "__parse_reference" =>
           /\ ~BeginsWithScheme(probe.ref_str) => probe.result = None
           /\ probe.result.kind = "Parsed" => probe.isref

\* A well-formed asset path behind "fpt:/": not a reference, not parsed
C4_Witness ==
    /\ probe.op = "__parse_reference"
    /\ probe.ref_str = "fpt:/asset/work/12"
    /\ ~probe.isref
    /\ probe.result = None

\* An optional sign followed by one or more decimal digits
IsIntegerLiteral(s) ==
    LET body == IF s # "" /\ SubSeq(s, 1, 1) \in {"+", "-"}
                THEN SubSeq(s, 2, Len(s)) ELSE s
    IN  body # "" /\ \A i \in 1..Len(body) : SubSeq(body, i, i) \in Digits

\* The value of a run of digits and underscores, read from the right
RECURSIVE DigitsValue(_)
DigitsValue(body) ==
    LET last == SubSeq(body, Len(body), Len(body))
        front == SubSeq(body, 1, Len(body) - 1)
    IN  IF body = "" THEN 0
        ELSE IF last = "_" THEN DigitsValue(front)
        ELSE 10 * DigitsValue(front) + DigitValue(last)

\* The text between the first and the last character that is not a space
Trimmed(s) ==
    LET inked == {i \in 1..Len(s) : SubSeq(s, i, i) # " "}
    IN  IF inked = {} THEN ""
        ELSE SubSeq(s, CHOOSE i \in inked : \A j \in inked : i <= j,
                       CHOOSE i \in inked : \A j \in inked : i >= j)

Unsigned(t) == IF t # "" /\ SubSeq(t, 1, 1) \in {"+", "-"} THEN SubSeq(t, 2, Len(t)) ELSE t

\* What int() accepts in base 10: optional surrounding spaces, an optional
\* sign, then digits with single underscores allowed between two digits
IsIntArgument(s) ==
    LET body == Unsigned(Trimmed(s))
        ch(i) == SubSeq(body, i, i)
    IN  /\ body # ""
        /\ \A i \in 1..Len(body) : ch(i) \in Digits \cup {"_"}
        /\ ch(1) \in Digits /\ ch(Len(body)) \in Digits
        /\ \A i \in 1..(Len(body) - 1) : ~(ch(i) = "_" /\ ch(i + 1) = "_")

IntArgumentValue(s) ==
    IF SubSeq(Trimmed(s), 1, 1) = "-"
    THEN 0 - DigitsValue(Unsigned(Trimmed(s)))
    ELSE DigitsValue(Unsigned(Trimmed(s)))

AssetProbe == probe.op = "__parse_reference" /\ probe.head = "fpt://asset"

\* C5 as claimed: "fpt://asset/{type}/{id}" parses exactly when there are
\* exactly two segments after "asset" and id is a base-10 integer literal
\* (an optionally signed run of digits), giving the type unchanged and the
\* value of id; everything else, and every first segment other than asset
\* or workfile, parses to none.
C5_AssetParsesExactlyIntegerLiterals ==
    /\ AssetProbe =>
           /\ probe.result.kind = "Parsed" <=>
                  (Len(probe.parts) = 2 /\ IsIntegerLiteral(probe.parts[2]))
           /\ probe.result.kind = "Parsed" =>
                  /\ probe.result.type = "ASSET"
                  /\ probe.result.fields =
                         [type |-> probe.parts[1],
                          id |-> IntArgumentValue(probe.parts[2])]
           /\ probe.result.kind # "Parsed" => probe.result = None
    /\ (probe.op = "__parse_reference"
        /\ probe.head \in {"fpt://assets", "fpt://"}) => probe.result = None

\* C5 as amended: "fpt://asset/{type}/{id}" parses exactly when there are
\* exactly two segments after "asset" and id is a string int() accepts in
\* base 10 (digits, single underscores between digits allowed, an optional
\* sign before them, optional whitespace around them), giving the type
\* unchanged and the integer value of id; everything else, and every first
\* segment other than asset or workfile, parses to none.
C5_AssetParsesExactlyIntArguments ==
    /\ AssetProbe =>
           /\ probe.result.kind = "Parsed" <=>
                  (Len(probe.parts) = 2 /\ IsIntArgument(probe.parts[2]))
           /\ probe.result.kind = "Parsed" =>
                  /\ probe.result.type = "ASSET"
                  /\ probe.result.ref_str = probe.ref_str
                  /\ probe.result.fields =
                         [type |-> probe.parts[1],
                          id |-> IntArgumentValue(probe.parts[2])]
           /\ probe.result.kind # "Parsed" => probe.result = None
    /\ (probe.op = "__parse_reference"
        /\ probe.head \in {"fpt://assets", "fpt://"}) => probe.result = None

\* "fpt://asset/work/1_0" has parsed to type "work" and id 10
C5_Witness ==
    /\ AssetProbe
    /\ probe.parts = <<"work", "1_0">>
    /\ probe.result.kind = "Parsed"
    /\ probe.result.fields = [type |-> "work", id |-> 10]

UnknownTemplateRef == "fpt://workfile/nope/s10/3"

MalformedCallbackFor(idx) ==
    \E i \in CallbacksFor(idx) :
        /\ call.cbs[i].cb = "error"
        /\ call.cbs[i].code = kMalformedEntityReference
        /\ call.cbs[i].message = "Entity identifier is malformed"

\* C6: a workfile reference that names a template the Toolkit does not
\* know parses to none without an exception, so resolve and entityTraits
\* make the malformed-reference error callback for it and go on with the
\* batch.
C6_UnknownTemplateIsMalformed ==
    ReadCall =>
        /\ call.raised # "KeyError"
        /\ \A p \in 1..Len(call.parses) :
               call.entityReferences[call.parses[p].idx + 1] = UnknownTemplateRef =>
                   /\ call.parses[p].kind = "None"
                   /\ MalformedCallbackFor(call.parses[p].idx)

WorkfileProbe ==
    /\ probe.op = "__parse_reference"
    /\ probe.head = "fpt://workfile"
    /\ Len(probe.parts) >= min_num_parts
    /\ probe.parts[1] \in TemplateNames
    /\ sgtk_lazy # "None"

\* C7: when a workfile reference is parsed against a known template, a
\* single positional value that cannot be converted to its key's type makes
\* the whole parse return none; otherwise every paired key gets its
\* converted value (never only some of them), whether or not the value is
\* written in the key's canonical zero-padded form.
C7_CoercionFailsClosed ==
    WorkfileProbe =>
        LET keys == ordered_keys(probe.parts[1])
            values == Tail(probe.parts)
            n == Min(Len(keys), Len(values))
            coercible(i) == keys[i].type = "int" => IsIntArgument(values[i])
            converted(i) == IF keys[i].type = "int"
                            THEN [int |-> IntArgumentValue(values[i])]
                            ELSE [str |-> values[i]]
        IN  IF \E i \in 1..n : ~coercible(i)
            THEN probe.result = None
            ELSE /\ probe.result.kind = "Parsed"
                 /\ probe.result.type = "WORKFILE"
                 /\ probe.result.template = probe.parts[1]
                 /\ DOMAIN probe.result.fields = {keys[i].name : i \in 1..n}
                 /\ \A i \in 1..n :
                        probe.result.fields[keys[i].name] = converted(i)

\* "fpt://workfile/work/s10/1x" has parsed to none: Shot converts, version
\* does not
C7_Witness ==
    /\ WorkfileProbe
    /\ probe.parts = <<"work", "s10", "1x">>
    /\ probe.result = None

WorkfileRefs == {r \in Refs : StartsWith(r, "fpt://workfile/")}

\* C8: while there is neither a running engine nor a project id, every
\* workfile reference of a read batch gets the malformed-reference error
\* callback and the database references of the batch are processed as
\* usual; nothing of this is remembered, the handle stays unbuilt.
C8_UnavailableHandle ==
    (ReadCall /\ Sgtk(call.lazy, engine, project_id) = "None") =>
        /\ sgtk_lazy = "None"
        /\ \A k \in 1..Len(call.entityReferences) :
               call.entityReferences[k] \in WorkfileRefs =>
                   MalformedCallbackFor(k - 1)

\* References that do not parse: an extra path component, no prefix, an
\* unknown template
UnparsableRefs ==
    {"fpt://asset/PublishedFile/123/extra", "not a reference", UnknownTemplateRef}

\* C9: in a read batch every reference that does not parse gets the error
\* callback with kMalformedEntityReference and "Entity identifier is
\* malformed", and no find_one call is made for it.
C9_UnparsableIsMalformedError ==
    ReadCall =>
        \A k \in 1..Len(call.entityReferences) :
            call.entityReferences[k] \in UnparsableRefs =>
                /\ MalformedCallbackFor(k - 1)
                /\ \A q \in 1..Len(call.queries) : call.queries[q].idx # k - 1

MissingEntityRef == "fpt://asset/PublishedFile/0456"

\* C10: in a read batch a well-formed database reference whose record does
\* not exist gets the error callback with kEntityResolutionError and the
\* message "Entity '<ref>' not found" with the reference string verbatim,
\* and no success callback.
C10_MissingRecordIsNotFoundError ==
    ReadCall =>
        \A k \in 1..Len(call.entityReferences) :
            call.entityReferences[k] = MissingEntityRef =>
                /\ \E i \in CallbacksFor(k - 1) :
                       /\ call.cbs[i].code = kEntityResolutionError
                       /\ call.cbs[i].message =
                              "Entity 'fpt://asset/PublishedFile/0456' not found"
                /\ \A i \in CallbacksFor(k - 1) : call.cbs[i].cb = "error"

\* The parse of the k-th reference of the returned call, with the handle
\* the manager has or can build during the call
ParseOfItem(k) ==
    ParseReference(call.entityReferences[k], Sgtk(call.lazy, engine, project_id))

IsAssetItem(k) == ParseOfItem(k).kind = "Parsed" /\ ParseOfItem(k).type = "ASSET"

IsWorkfileItem(k) ==
    ParseOfItem(k).kind = "Parsed" /\ ParseOfItem(k).type = "WORKFILE"

\* The find_one calls of the returned call made for the 0-based index idx
QueriesFor(idx) == {q \in 1..Len(call.queries) : call.queries[q].idx = idx}

\* C11: entityTraits with read access looks every well-formed database
\* reference up once by its (type, id), and when the record exists the item
\* gets one success callback with exactly {Entity, LocatableContent,
\* DisplayName}, whatever the record is.
C11_EntityTraitsOfRecord ==
    (ReadCall /\ call.op = "entityTraits") =>
        \A k \in 1..Len(call.entityReferences) :
            IsAssetItem(k) =>
                /\ Cardinality(QueriesFor(k - 1)) = 1
                /\ \A q \in QueriesFor(k - 1) :
                       /\ call.queries[q].type = ParseOfItem(k).fields.type
                       /\ call.queries[q].id = ParseOfItem(k).fields.id
                /\ <<ParseOfItem(k).fields.type, ParseOfItem(k).fields.id>>
                       \in DOMAIN site =>
                       /\ Cardinality(CallbacksFor(k - 1)) = 1
                       /\ \A i \in CallbacksFor(k - 1) :
                              /\ call.cbs[i].cb = "success"
                              /\ call.cbs[i].traits =
                                     {EntityTrait, LocatableContentTrait,
                                      DisplayNameTrait}

\* C12: entityTraits with read access answers every parseable workfile
\* reference with one success callback carrying exactly {Entity,
\* LocatableContent}, without a find_one call and without a not-found error.
C12_EntityTraitsOfWorkfile ==
    (ReadCall /\ call.op = "entityTraits") =>
        \A k \in 1..Len(call.entityReferences) :
            IsWorkfileItem(k) =>
                /\ QueriesFor(k - 1) = {}
                /\ Cardinality(CallbacksFor(k - 1)) = 1
                /\ \A i \in CallbacksFor(k - 1) :
                       /\ call.cbs[i].cb = "success"
                       /\ call.cbs[i].traits = {EntityTrait, LocatableContentTrait}

\* The file URL of a path ("" for no path)
FileUrl(path) == IF path = "" THEN "" ELSE "file://" \o path

\* The fields resolve asks the backend for, as the claim C20 lists them
FieldsFor(traitSet) ==
    (IF LocatableContentTrait \in traitSet
     THEN {"path", "sg_path_to_frames", "sg_path_to_geometry",
           "sg_path_to_movie", "sg_uploaded_movie"}
     ELSE {})
    \cup (IF DisplayNameTrait \in traitSet THEN {"name"} ELSE {})
    \cup (IF FrameRangedTrait \in traitSet
          THEN {"entity.Shot.sg_head_in", "entity.Shot.sg_tail_out",
                "entity.Shot.sg_cut_in", "entity.Shot.sg_cut_out"}
          ELSE {})

\* The result a workfile item is to have: the location of the expanded
\* template if LocatableContent was asked for, and nothing else
WorkfileResult(k) ==
    IF LocatableContentTrait \in call.traitSet
    THEN [TraitsData EXCEPT
             !.traits = {LocatableContentTrait},
             !.location = FileUrl(apply_fields(ParseOfItem(k).template,
                                               ParseOfItem(k).fields).path)]
    ELSE TraitsData

\* C19: resolve with read access answers every parseable workfile reference
\* with one success callback and without a find_one call; the result has
\* the location (the file URL of the template expanded with the parsed
\* fields) exactly when LocatableContent was asked for, and no name and no
\* frame range even when DisplayName or FrameRanged was asked for.
C19_WorkfileResolvesToLocationOnly ==
    (ReadCall /\ call.op = "resolve") =>
        \A k \in 1..Len(call.entityReferences) :
            IsWorkfileItem(k) =>
                /\ QueriesFor(k - 1) = {}
                /\ Cardinality(CallbacksFor(k - 1)) = 1
                /\ \A i \in CallbacksFor(k - 1) :
                       /\ call.cbs[i].cb = "success"
                       /\ call.cbs[i].data = WorkfileResult(k)
                       /\ call.cbs[i].data.location # ""
                              <=> LocatableContentTrait \in call.traitSet

\* C20: in a resolve call with read access every parseable database item
\* causes exactly one find_one call, for its own (type, id); no other item
\* causes one; and every find_one call of the batch asks for the same
\* fields, those that the requested trait set determines.
C20_OneQueryPerItemSharedFields ==
    (ReadCall /\ call.op = "resolve") =>
        /\ \A k \in 1..Len(call.entityReferences) :
               IsAssetItem(k) =>
                   /\ Cardinality(QueriesFor(k - 1)) = 1
                   /\ \A q \in QueriesFor(k - 1) :
                          /\ call.queries[q].type = ParseOfItem(k).fields.type
                          /\ call.queries[q].id = ParseOfItem(k).fields.id
        /\ \A q \in 1..Len(call.queries) :
               /\ IsAssetItem(call.queries[q].idx + 1)
               /\ Range(call.queries[q].fields) = FieldsFor(call.traitSet)
               /\ Len(call.queries[q].fields)
                      = Cardinality(FieldsFor(call.traitSet))
               /\ call.queries[q].fields = call.queries[1].fields

PolicyReturned == probe.op = "managementPolicy"

\* C13: managementPolicy with an access mode other than read returns one
\* empty policy per trait set, whatever the trait sets hold; with any access
\* mode there are as many policies as trait sets, and the policy at each
\* position declares only traits of the trait set at that position.
C13_NonReadPolicyIsEmpty ==
    PolicyReturned =>
        /\ Len(probe.policies) = Len(probe.traitSets)
        /\ \A i \in 1..Len(probe.traitSets) :
               /\ probe.policies[i] \ {ManagedTrait} \subseteq probe.traitSets[i]
               /\ probe.policyAccess # kRead => probe.policies[i] = {}

C13_Witness ==
    /\ PolicyReturned
    /\ probe.policyAccess = "kCreateRelated"
    /\ Len(probe.traitSets) = 2
    /\ probe.traitSets[1] = {LocatableContentTrait, DisplayNameTrait}
    /\ probe.traitSets[2] = {FrameRangedTrait}
    /\ probe.policies = <<{}, {}>>

\* C14: with read access the policy of a trait set declares DisplayName
\* exactly when the trait set has the DisplayName trait and has not the
\* Work trait.
C14_DisplayNameUnlessWork ==
    (PolicyReturned /\ probe.policyAccess = kRead) =>
        \A i \in 1..Len(probe.traitSets) :
            DisplayNameTrait \in probe.policies[i]
                <=> (/\ DisplayNameTrait \in probe.traitSets[i]
                     /\ WorkTrait_kId \notin probe.traitSets[i])

\* The traits a rule of managementPolicy declares besides Managed
RuleTraits == {LocatableContentTrait, DisplayNameTrait, FrameRangedTrait}

FoundQueries ==
    {q \in 1..Len(call.queries) :
        ReadCall /\ call.op = "resolve" /\ call.queries[q].answer = "Record"}

\* The record of the site the query q asked for
RecordOf(q) == site[<<call.queries[q].type, call.queries[q].id>>]

\* The item of the query q got one callback, the success callback
Succeeded(q) ==
    /\ Cardinality(CallbacksFor(call.queries[q].idx)) = 1
    /\ \A i \in CallbacksFor(call.queries[q].idx) : call.cbs[i].cb = "success"

\* The TraitsData given to the success callback of the item of the query q
ResultOf(q) ==
    call.cbs[CHOOSE i \in CallbacksFor(call.queries[q].idx) : TRUE].data

\* The first string of a sequence that is not empty ("" if there is none)
RECURSIVE FirstWithData(_)
FirstWithData(sources) ==
    IF sources = <<>> THEN ""
    ELSE IF Head(sources) # "" THEN Head(sources)
    ELSE FirstWithData(Tail(sources))

\* The two sources of the path object, and the four sources after it
PathSources(rec) == <<FileUrl(rec.path.local_path), rec.path.url>>
LaterSources(rec) ==
    <<FileUrl(rec.sg_path_to_frames), FileUrl(rec.sg_path_to_geometry),
      FileUrl(rec.sg_path_to_movie), rec.sg_uploaded_movie.url>>

\* C16 as stated: when resolve finds a record and LocatableContent was
\* asked for, the location is that of the first of the six sources that
\* has data: path.local_path as a file URL, path.url, sg_path_to_frames,
\* sg_path_to_geometry, sg_path_to_movie as file URLs, sg_uploaded_movie's
\* url; a later source is used whenever all earlier ones have no data.
C16_FirstSourceWithData ==
    \A q \in FoundQueries :
        LocatableContentTrait \in call.traitSet =>
            /\ Succeeded(q)
            /\ ResultOf(q).location =
                   FirstWithData(PathSources(RecordOf(q))
                                 \o LaterSources(RecordOf(q)))

\* C16 amended: when resolve finds a record and LocatableContent was asked
\* for, a record with a path object gets its location from path.local_path
\* (as a file URL), else from path.url, and from nothing else; a record
\* without a path object gets it from the first that has data of
\* sg_path_to_frames, sg_path_to_geometry, sg_path_to_movie (as file URLs)
\* and sg_uploaded_movie's url.
C16_FirstSourceUnlessPathObject ==
    \A q \in FoundQueries :
        LocatableContentTrait \in call.traitSet =>
            /\ Succeeded(q)
            /\ ResultOf(q).location =
                   IF RecordOf(q).path.present
                   THEN FirstWithData(PathSources(RecordOf(q)))
                   ELSE FirstWithData(LaterSources(RecordOf(q)))

C16_Witness ==
    \E q \in FoundQueries :
        /\ LocatableContentTrait \in call.traitSet
        /\ ~RecordOf(q).path.present
        /\ RecordOf(q).sg_path_to_frames = ""
        /\ RecordOf(q).sg_path_to_geometry = "/mnt/proj/g.abc"
        /\ RecordOf(q).sg_path_to_movie = "/mnt/proj/m.mov"
        /\ RecordOf(q).sg_uploaded_movie.present
        /\ ResultOf(q).location = "file:///mnt/proj/g.abc"

\* The record has none of the six location sources
NoLocationSource(rec) ==
    /\ ~rec.path.present
    /\ rec.sg_path_to_frames = ""
    /\ rec.sg_path_to_geometry = ""
    /\ rec.sg_path_to_movie = ""
    /\ ~rec.sg_uploaded_movie.present

\* C17: when resolve (asked for LocatableContent) finds a record whose path
\* object is present but has neither a local path nor a url, the result has
\* LocatableContent imbued and no location set; when the record has no
\* location source at all, the result has not LocatableContent imbued.
C17_PathObjectWithoutLocation ==
    \A q \in FoundQueries :
        LocatableContentTrait \in call.traitSet =>
            /\ (/\ RecordOf(q).path.present
                /\ RecordOf(q).path.local_path = ""
                /\ RecordOf(q).path.url = "") =>
                   /\ Succeeded(q)
                   /\ LocatableContentTrait \in ResultOf(q).traits
                   /\ ResultOf(q).location = ""
            /\ NoLocationSource(RecordOf(q)) =>
                   /\ Succeeded(q)
                   /\ LocatableContentTrait \notin ResultOf(q).traits
                   /\ ResultOf(q).location = ""

C17_Witness ==
    \E q \in FoundQueries :
        /\ LocatableContentTrait \in call.traitSet
        /\ RecordOf(q).path = [present |-> TRUE, local_path |-> "", url |-> ""]
        /\ RecordOf(q).sg_path_to_frames = "/mnt/proj/f.exr"
        /\ ResultOf(q).traits = {LocatableContentTrait}
        /\ ResultOf(q).location = ""

\* The field of the record behind each frame-range property
FrameField(rec, property) ==
    CASE property = "startFrame" -> rec.sg_head_in
      [] property = "endFrame" -> rec.sg_tail_out
      [] property = "inFrame" -> rec.sg_cut_in
      [] property = "outFrame" -> rec.sg_cut_out

\* C18: when resolve finds a record, the name is set exactly when the
\* record (as returned, with the fields asked for) has a name, and each of
\* startFrame, endFrame, inFrame, outFrame is set, to the value of its
\* field, exactly when sg_head_in, sg_tail_out, sg_cut_in, sg_cut_out
\* respectively is present in it, whatever the number (0 included) and
\* whatever the location and the other properties.
C18_NameAndFramesFollowTheirFields ==
    \A q \in FoundQueries :
        LET rec == Project(RecordOf(q), call.queries[q].fields)
        IN  /\ Succeeded(q)
            /\ ResultOf(q).name = rec.name
            /\ DisplayNameTrait \in ResultOf(q).traits <=> rec.name # ""
            /\ \A property \in {"startFrame", "endFrame", "inFrame", "outFrame"} :
                   /\ property \in DOMAIN ResultOf(q).frames
                          <=> FrameField(rec, property).present
                   /\ property \in DOMAIN ResultOf(q).frames =>
                          ResultOf(q).frames[property]
                              = FrameField(rec, property).value

(***************************************************************************)
(* What holds of the items a read batch gets to before an exception ends   *)
(* it                                                                      *)
(***************************************************************************)

\* Every item whose parse returned none has the malformed-reference error
\* callback and no query; every query answered with no record has the
\* not-found error callback quoting the reference; callbacks come in index
\* order, at most one per index, and only the last parsed item can lack one.
ProcessedItems ==
    ReadCall =>
        /\ \A p \in 1..Len(call.parses) :
               /\ call.parses[p].idx = p - 1
               /\ call.parses[p].kind = "None" =>
                      /\ MalformedCallbackFor(p - 1)
                      /\ \A q \in 1..Len(call.queries) : call.queries[q].idx # p - 1
        /\ \A q \in 1..Len(call.queries) :
               call.queries[q].answer = "None" =>
                   \E i \in CallbacksFor(call.queries[q].idx) :
                       /\ call.cbs[i].code = kEntityResolutionError
                       /\ call.cbs[i].message =
                              "Entity '"
                              \o call.entityReferences[call.queries[q].idx + 1]
                              \o "' not found"
        /\ \A i \in 1..Len(call.cbs) : call.cbs[i].idx = i - 1
        /\ Len(call.cbs) = IF call.raised = "" THEN Len(call.entityReferences)
                           ELSE Len(call.parses) - 1
        /\ call.raised = "" => Len(call.parses) = Len(call.entityReferences)

\* Every find_one call of entityTraits that finds a record is followed by
\* the success callback with {Entity, LocatableContent, DisplayName}; every
\* workfile reference that parsed has the success callback with {Entity,
\* LocatableContent} and no find_one call.
ProcessedEntityTraits ==
    (ReadCall /\ call.op = "entityTraits") =>
        /\ \A q \in 1..Len(call.queries) :
               call.queries[q].answer = "Record" =>
                   \E i \in CallbacksFor(call.queries[q].idx) :
                       /\ call.cbs[i].cb = "success"
                       /\ call.cbs[i].traits =
                              {EntityTrait, LocatableContentTrait, DisplayNameTrait}
        /\ \A p \in 1..Len(call.parses) :
               (call.parses[p].kind = "Parsed" /\ IsWorkfileItem(p)) =>
                   /\ QueriesFor(p - 1) = {}
                   /\ \E i \in CallbacksFor(p - 1) :
                          /\ call.cbs[i].cb = "success"
                          /\ call.cbs[i].traits =
                                 {EntityTrait, LocatableContentTrait}

\* Every find_one call of resolve is the only one of its item, is made for
\* the (type, id) of that item and asks for the fields of the requested
\* trait set; every success callback of a workfile item carries the location
\* of the expanded template if LocatableContent was asked for and nothing
\* else, and the item caused no find_one call.
ProcessedResolve ==
    (ReadCall /\ call.op = "resolve") =>
        /\ \A q \in 1..Len(call.queries) :
               /\ IsAssetItem(call.queries[q].idx + 1)
               /\ QueriesFor(call.queries[q].idx) = {q}
               /\ call.queries[q].type
                      = ParseOfItem(call.queries[q].idx + 1).fields.type
               /\ call.queries[q].id
                      = ParseOfItem(call.queries[q].idx + 1).fields.id
               /\ Range(call.queries[q].fields) = FieldsFor(call.traitSet)
               /\ Len(call.queries[q].fields)
                      = Cardinality(FieldsFor(call.traitSet))
        /\ \A k \in 1..Len(call.entityReferences) :
               IsWorkfileItem(k) =>
                   /\ QueriesFor(k - 1) = {}
                   /\ \A i \in CallbacksFor(k - 1) :
                          /\ call.cbs[i].cb = "success"
                          /\ call.cbs[i].data = WorkfileResult(k)

(***************************************************************************)
(* The lifetime of the client and of the Toolkit handle                    *)
(***************************************************************************)

\* A step of initialize
InitializeStep ==
    \E managerSettings \in ManagerSettings,
       outcome \in {"ok", "Shotgun raises", "connect raises"} :
        Initialize(managerSettings, outcome)

\* C21 as stated: over any sequence of initialize, resolve and entityTraits
\* calls, the client and the Toolkit handle, once constructed, are the same
\* objects after every later step: never replaced and never reset.
C21_ConstructedOnceAndKept ==
    [][/\ sgclient # "None" => sgclient' = sgclient
       /\ sgtk_lazy # "None" => sgtk_lazy' = sgtk_lazy]_vars

\* C21, amended: only a call of initialize replaces the client or resets a
\* constructed Toolkit handle (and every call of initialize resets the
\* handle); resolve and entityTraits construct the handle only when none is
\* held and otherwise leave the client and the handle they found.
C21_KeptBetweenInitializeCalls ==
    [][/\ InitializeStep => sgtk_lazy' = "None"
       /\ ~InitializeStep =>
              /\ sgclient' = sgclient
              /\ sgtk_lazy # "None" => sgtk_lazy' = sgtk_lazy]_vars

\* A read call with a workfile reference has returned having reused the
\* handle built from the project, although an engine is running by now
C21_Witness ==
    /\ BatchReturned
    /\ call.access = kRead
    /\ \E i \in 1..Len(call.parses) : ReadsSgtk(call.entityReferences[i])
    /\ call.lazy = "sgtk_from_entity"
    /\ sgtk_lazy = "sgtk_from_entity"
    /\ engine

(***************************************************************************)
(* The workfiles browser: a chosen file becomes a reference, which the     *)
(* host resolves                                                           *)
(***************************************************************************)

\* "/".join(parts)
SlashJoin(parts) == IF parts = <<>> THEN "" ELSE Head(parts) \o Join(Tail(parts))

\* str(value) of a field value
StrOfValue(v) == IF "int" \in DOMAIN v THEN PyStr(v.int) ELSE v.str

NoFields == [k \in {} |-> 0]

EndsWith(s, suffix) ==
    /\ Len(s) >= Len(suffix)
    /\ SubSeq(s, Len(s) - Len(suffix) + 1, Len(s)) = suffix

\* tmplt.get_fields(path): the values of the keys of a path that matches
\* the template; [ok |-> FALSE] stands for the TankError of a path that
\* does not
get_fields(tmplt, path) ==
    LET pieces == Split(path, "/")
        keys == ordered_keys(tmplt)
        NoMatch == [ok |-> FALSE, fields |-> NoFields]
        under == Len(pieces) >= 2 /\ pieces[1] = "" /\ pieces[2] = "proj"
    IN  CASE tmplt = "work" ->
                 IF under /\ Len(pieces) = 4 /\ pieces[3] # ""
                    /\ StartsWith(pieces[4], "v") /\ EndsWith(pieces[4], ".ma")
                    /\ Len(pieces[4]) > 4
                 THEN LET text == SubSeq(pieces[4], 2, Len(pieces[4]) - 3)
                          version == value_from_str(keys[2], text)
                      IN  IF version.ok
                          THEN [ok |-> TRUE,
                                fields |-> [Shot |-> [str |-> pieces[3]],
                                            version |-> version.value]]
                          ELSE NoMatch
                 ELSE NoMatch
          [] tmplt = "area" ->
                 IF under /\ Len(pieces) = 3 /\ pieces[3] # ""
                 THEN [ok |-> TRUE, fields |-> [Step |-> [str |-> pieces[3]]]]
                 ELSE NoMatch
          [] tmplt = "root" ->
                 IF under /\ Len(pieces) = 2
                 THEN [ok |-> TRUE, fields |-> NoFields]
                 ELSE NoMatch

\* Paths of files shown in the browser
WorkPaths ==
    {"/proj/s10/v003.ma", "/proj/s10/v012.ma", "/proj/s10/v1234.ma",
     "/proj/12/v000.ma", "/proj/s10/v0003.ma", "/proj/comp", "/proj/007",
     "/proj"}

\* action.file with action.environment.work_template: a local file of the
\* work area, or a published file
Files ==
    [is_local : {TRUE}, tmplt : TemplateNames, path : WorkPaths,
     published_file_id : {0}]
    \cup [is_local : {FALSE}, tmplt : {"work"}, path : {""},
          published_file_id : {123, 456}]

\* A variant of the reference that writes the values in the reverse of the
\* template's key order
WorkfileReference_reversed(tmplt, fields) ==
    LET keys == ordered_keys(tmplt)
        n == Len(keys)
        fields_str == SlashJoin([i \in 1..n |->
                                    StrOfValue(fields[keys[n + 1 - i].name])])
    IN  "fpt://workfile/" \o tmplt \o "/" \o fields_str

\* The reference _perform_action makes of a local file whose path matches
\* the template
WorkfileReference(tmplt, fields) ==
    LET keys == ordered_keys(tmplt)
        fields_str == SlashJoin([i \in 1..Len(keys) |->
                                    StrOfValue(fields[keys[i].name])])
    IN  "fpt://workfile/" \o tmplt \o "/" \o fields_str

InitWorkfile ==
    /\ sgclient = "None"
    /\ sgtk_lazy = "None"
    /\ project_id = 0
    /\ engine \in BOOLEAN
    /\ online = TRUE
    /\ call = NoCall
    /\ probe = NoProbe
    /\ site = Site
    /\ settings = NoSettings
    /\ \E file \in Files :
           ui = [op |-> "FileOpenForm", file |-> file, entityReferences |-> <<>>]

\* FileOpenForm._perform_action(action) for a file action on ui.file;
\* close_dialog is what action.execute returned
PerformAction(close_dialog) ==
    /\ ui.op = "FileOpenForm"
    /\ LET file == ui.file
           got == get_fields(file.tmplt, file.path)
           ref == IF file.is_local THEN WorkfileReference(file.tmplt, got.fields)
                  ELSE "fpt://asset/PublishedFile/" \o PyStr(file.published_file_id)
       IN  ui' = IF ~close_dialog THEN [ui EXCEPT !.op = "_perform_action"]
                 ELSE IF file.is_local /\ ~got.ok THEN [ui EXCEPT !.op = "TankError"]
                 ELSE [ui EXCEPT !.op = "_perform_action",
                                 !.entityReferences = <<ref>>]
    /\ UNCHANGED <<sgclient, sgtk_lazy, project_id, engine, online, call, probe,
                   site, settings>>

\* The host resolves the references of the state the browser gave it
ResolveSelected ==
    /\ ui.op = "_perform_action"
    /\ ui.entityReferences # <<>>
    /\ \E traitSet \in TraitSets :
           BatchCall("resolve", ui.entityReferences, traitSet, kRead)

NextWorkfile ==
    \/ \E managerSettings \in ManagerSettings : Initialize(managerSettings, "ok")
    \/ \E close_dialog \in BOOLEAN : PerformAction(close_dialog)
    \/ ResolveSelected
    \/ HostContinues

SpecWorkfile == InitWorkfile /\ [][NextWorkfile]_vars

\* C22: the reference made of a local file whose path matches its work
\* template, once the parser has parsed it (a Toolkit handle being there)
\* and resolve has expanded it through the template, gives back the path
\* of the file, as a file URL, whatever the number of keys of the template
\* and whether or not str() of a value is its padded text.
C22_WorkfileRoundTrip ==
    (/\ call.op = "resolve"
     /\ ui.op = "_perform_action"
     /\ ui.file.is_local
     /\ call.entityReferences = ui.entityReferences
     /\ LocatableContentTrait \in call.traitSet
     /\ sgtk_lazy # "None") =>
        /\ call.raised = ""
        /\ Len(call.cbs) = 1
        /\ call.cbs[1].cb = "success"
        /\ call.cbs[1].data.location = "file://" \o ui.file.path

\* The file v003.ma of shot s10 was chosen, its reference carries the
\* version as "3", and resolve gave back the path with "003"
C22_Witness ==
    /\ call.op = "resolve"
    /\ ui.op = "_perform_action"
    /\ ui.file.is_local
    /\ ui.file.path = "/proj/s10/v003.ma"
    /\ ui.entityReferences = <<"fpt://workfile/work/s10/3">>
    /\ call.entityReferences = ui.entityReferences
    /\ Len(call.cbs) = 1
    /\ call.cbs[1].data.location = "file:///proj/s10/v003.ma"

(***************************************************************************)
(* The read-only operations                                                *)
(***************************************************************************)

\* The same call made again in the state the call has left
SameCallAgain ==
    Batch(call.op, sgtk_lazy, call.entityReferences, call.traitSet, call.access)

\* The call that has returned would have the same outcome if it were made
\* again now, and it asked the server at most one find_one per item
SameOutcomeWhenRepeated ==
    /\ BatchReturned =>
           /\ LET again == SameCallAgain
              IN  /\ again.cbs = call.cbs
                  /\ again.raised = call.raised
                  /\ again.queries = call.queries
                  /\ again.lazy = sgtk_lazy
           /\ \A i, j \in 1..Len(call.queries) :
                  call.queries[i].idx = call.queries[j].idx => i = j
    /\ call.op = "managementPolicy" =>
           /\ ManagementPolicy(call.traitSets, call.access) = call.policies
           /\ sgtk_lazy = call.lazy
    /\ call.op = "isEntityReferenceString" =>
           /\ isEntityReferenceString(call.someString) = call.isref
           /\ sgtk_lazy = call.lazy

\* C23: resolve, entityTraits, managementPolicy and isEntityReferenceString
\* leave the settings, the project id, the client and the records of the
\* site as they found them, make at most one find_one per item, and the
\* same call made again at once gives the same callbacks (or raises the
\* same exception): nothing but the Toolkit handle is kept from a call.
C23_ReadOnlyAndRepeatable ==
    /\ []SameOutcomeWhenRepeated
    /\ [][~InitializeStep =>
              /\ settings' = settings
              /\ project_id' = project_id
              /\ sgclient' = sgclient
              /\ site' = site]_vars

\* A read call of resolve has built the Toolkit handle, resolved a
\* workfile and looked up a record
C23_Witness ==
    /\ call.op = "resolve"
    /\ call.access = kRead
    /\ call.entityReferences =
           <<"fpt://workfile/work/s10/3", "fpt://asset/PublishedFile/123">>
    /\ call.lazy = "None"
    /\ sgtk_lazy # "None"
    /\ Len(call.cbs) = 2
    /\ Len(call.queries) = 1
    /\ settings = [project_id |-> 7]

(***************************************************************************)
(* Workfile references with more or fewer values than keys                 *)
(***************************************************************************)

\* A string "fpt://workfile/<known template>/<values>" has been given to
\* the parser while a Toolkit handle can be had, the number of its values
\* is not the number of keys of the template, and every value that has a
\* key converts to the type of its key
MiscountedWorkfileProbe ==
    /\ probe.op = "__parse_reference"
    /\ probe.head = "fpt://workfile"
    /\ probe.parts # <<>>
    /\ probe.parts[1] \in TemplateNames
    /\ Sgtk(sgtk_lazy, engine, project_id) # "None"
    /\ LET keys == ordered_keys(probe.parts[1])
           values == Tail(probe.parts)
       IN  /\ Len(values) # Len(keys)
           /\ \A i \in 1..Min(Len(keys), Len(values)) :
                  keys[i].type = "int" => IsIntArgument(values[i])

\* The parse succeeded with the first min(#values, #keys) keys and no
\* other
PairedPositionally ==
    LET keys == ordered_keys(probe.parts[1])
        values == Tail(probe.parts)
        n == Min(Len(keys), Len(values))
    IN  /\ probe.result.kind = "Parsed"
        /\ probe.result.template = probe.parts[1]
        /\ DOMAIN probe.result.fields = {keys[i].name : i \in 1..n}
        /\ Cardinality(DOMAIN probe.result.fields) = n
        /\ \A i \in 1..n :
               probe.result.fields[keys[i].name] =
                   IF keys[i].type = "int"
                   THEN [int |-> IntArgumentValue(values[i])]
                   ELSE [str |-> values[i]]

\* C24 as stated: a workfile reference whose number of values differs from
\* the number of keys of its template still parses, the values paired
\* positionally with the keys, into exactly min(#values, #keys) entries.
C24_MiscountedStillParses == MiscountedWorkfileProbe => PairedPositionally

\* C24, amended: the same, for a reference that carries at least one value
\* after the template name; a reference with no value at all has fewer
\* parts than the parser asks of any reference and parses to none.
C24_MiscountedWithAValueParses ==
    MiscountedWorkfileProbe =>
        IF Len(probe.parts) >= min_num_parts THEN PairedPositionally
        ELSE probe.result = None

\* "fpt://workfile/area/s10/1x" has parsed: Step is "s10", and "1x", which
\* has no key, was dropped
C24_Witness ==
    /\ MiscountedWorkfileProbe
    /\ probe.parts = <<"area", "s10", "1x">>
    /\ probe.result.kind = "Parsed"
    /\ probe.result.fields = [Step |-> [str |-> "s10"]]

(***************************************************************************)
(* The loader browser's ActionManager: the filters enabled for a request   *)
(***************************************************************************)

ImageTrait_kId == "Image"
GeometryTrait_kId == "Geometry"

\* trait_set_to_filter_names
trait_set_to_filter_names ==
    <<[filter_trait_set |-> {WorkTrait_kId},
       filter_names |-> {"Nuke Script", "Katana File", "Mari Archive",
                         "Maya Scene"}],
      [filter_trait_set |-> {ImageTrait_kId},
       filter_names |-> {"Rendered Image", "Render Image", "UDIM Image",
                         "Movie"}],
      [filter_trait_set |-> {GeometryTrait_kId},
       filter_names |-> {"Alembic Cache", "Vdb File"}]>>

\* A Python set held by __enabled_filters (None is the other value)
PySet(names) == [kind |-> "set", names |-> names]

\* A variant of the loop over the table without its break: the last entry
\* that matches wins
RECURSIVE ScanFilters_no_break(_, _, _)
ScanFilters_no_break(table, entity_traits, enabled) ==
    IF table = <<>> THEN enabled
    ELSE ScanFilters_no_break(
             Tail(table), entity_traits,
             IF Head(table).filter_trait_set \subseteq entity_traits
             THEN Head(table).filter_names ELSE enabled)

\* for filter_trait_set, filter_names in trait_set_to_filter_names: from
\* the given entry on, with the filters enabled so far
RECURSIVE ScanFilters(_, _, _)
ScanFilters(table, entity_traits, enabled) ==
    IF table = <<>> THEN enabled
    ELSE IF Head(table).filter_trait_set \subseteq entity_traits
         THEN Head(table).filter_names
         ELSE ScanFilters(Tail(table), entity_traits, enabled)

\* The value update_filters_from_request leaves in __enabled_filters
EnabledFilters(entityTraitsDatas) ==
    IF entityTraitsDatas = <<>> THEN PySet({})
    ELSE PySet(ScanFilters(trait_set_to_filter_names, entityTraitsDatas[1], {}))

\* Bound of the number of trait sets of a request
MaxRequestTraitSets == 2

\* request.entityTraitsDatas(), each TraitsData as its trait set
RequestTraitIds ==
    {WorkTrait_kId, ImageTrait_kId, GeometryTrait_kId, LocatableContentTrait}

\* The trait sets after the first, which the code does not look at
LaterTraitSets == {{}, {GeometryTrait_kId}}

Requests ==
    {<<>>} \cup
    {<<first>> \o rest :
        first \in SUBSET RequestTraitIds,
        rest \in UNION {[1..n -> LaterTraitSets] :
                           n \in 0..(MaxRequestTraitSets - 1)}}

\* ActionManager.__init__ has set __enabled_filters to None and is about
\* to call update_filters_from_request
InitFilters ==
    /\ sgclient = "None"
    /\ sgtk_lazy = "None"
    /\ project_id = 0
    /\ engine = TRUE
    /\ online = TRUE
    /\ call = NoCall
    /\ probe = NoProbe
    /\ site = Site
    /\ settings = NoSettings
    /\ ui = [op |-> "ActionManager.__init__", entityTraitsDatas |-> <<>>,
             prev_enabled_filters |-> None, enabled_filters |-> None,
             returned |-> FALSE]

\* ActionManager.update_filters_from_request(request)
UpdateFiltersFromRequest(entityTraitsDatas) ==
    /\ ui.op \in {"ActionManager.__init__", "update_filters_from_request"}
    /\ LET enabled == EnabledFilters(entityTraitsDatas)
       IN  ui' = [op |-> "update_filters_from_request",
                  entityTraitsDatas |-> entityTraitsDatas,
                  prev_enabled_filters |-> ui.enabled_filters,
                  enabled_filters |-> enabled,
                  returned |-> (ui.enabled_filters # enabled)]
    /\ UNCHANGED <<sgclient, sgtk_lazy, project_id, engine, online, call, probe,
                   site, settings>>

NextFilters ==
    \E entityTraitsDatas \in Requests : UpdateFiltersFromRequest(entityTraitsDatas)

SpecFilters == InitFilters /\ [][NextFilters]_vars

\* The entries of the table whose required trait set is within the given
\* trait set
MatchingEntries(entity_traits) ==
    {i \in 1..Len(trait_set_to_filter_names) :
        trait_set_to_filter_names[i].filter_trait_set \subseteq entity_traits}

\* C25: after update_filters_from_request the enabled filters are the
\* filter names of the first entry of the table whose required trait set
\* is a subset of the first trait set of the request, the empty set when no
\* entry matches or the request has no trait set; and the call returned
\* true exactly when the enabled filters differ from those before it.
C25_FirstMatchingEntry ==
    ui.op = "update_filters_from_request" =>
        LET datas == ui.entityTraitsDatas
            matching == IF datas = <<>> THEN {} ELSE MatchingEntries(datas[1])
            first == CHOOSE i \in matching : \A j \in matching : i <= j
        IN  /\ ui.enabled_filters.kind = "set"
            /\ ui.enabled_filters.names =
                   IF matching = {} THEN {}
                   ELSE trait_set_to_filter_names[first].filter_names
            /\ ui.returned <=> (ui.prev_enabled_filters # ui.enabled_filters)

\* A request for images that are also work files, made while the image
\* filters were enabled, has enabled the work file filters and returned
\* true
C25_Witness ==
    /\ ui.op = "update_filters_from_request"
    /\ ui.entityTraitsDatas = <<{WorkTrait_kId, ImageTrait_kId}, {GeometryTrait_kId}>>
    /\ ui.prev_enabled_filters =
           PySet(trait_set_to_filter_names[2].filter_names)
    /\ ui.enabled_filters = PySet(trait_set_to_filter_names[1].filter_names)
    /\ ui.returned

(***************************************************************************)
(* The UI delegate's widgets: the WidgetStash and the containers that      *)
(* borrow widgets from it                                                  *)
(***************************************************************************)

\* The keys of the pools of the WidgetStash, one per kind of container
WorkfilesKey == "tk-multi-workfiles2"
LoaderKey == "tk-multi-loader2"
InfoKey == "tk-multi-shotgunpanel"
Keys == {WorkfilesKey, LoaderKey, InfoKey}

\* Bound of the number of containers populateUI has made
MaxContainers == 2

\* What the last event did: the first reference of an update_request, the
\* entity the container remembered and the child it held when the event
\* began, the entity the child was told to navigate to, and the exception
\* the handler raised
NoEvent ==
    [op |-> "none", ref_str |-> "", before |-> None, child |-> 0,
     navigated |-> None, raised |-> ""]

\* The (type, id) tuple an info container remembers
Entity(type, id) == [kind |-> "tuple", type |-> type, id |-> id]

\* WidgetStash.__init__, before any container exists.  A widget is its
\* index in ui.widgets; a child of 0 is None.
NoWidgets ==
    [containers |-> <<>>, pool |-> [key \in Keys |-> <<>>], widgets |-> <<>>,
     quit |-> FALSE, last |-> NoEvent]

\* A variant of get_from_pool that takes the last widget of the pool but
\* leaves it in the list
get_from_pool_no_pop(u, key, parent) ==
    LET widgets == u.pool[key]
    IN  IF widgets # <<>>
        THEN [u |-> [u EXCEPT !.widgets[widgets[Len(widgets)]].parent = parent],
              widget |-> widgets[Len(widgets)]]
        ELSE [u |-> [u EXCEPT !.widgets = Append(@, [key |-> key,
                                                     closed |-> FALSE,
                                                     parent |-> parent])],
              widget |-> Len(u.widgets) + 1]

\* WidgetStash.get_from_pool: the stash afterwards and the widget returned
get_from_pool(u, key, parent) ==
    LET widgets == u.pool[key]
    IN  IF widgets # <<>>
        THEN LET widget == widgets[Len(widgets)]
             IN  [u |-> [u EXCEPT
                            !.pool[key] = SubSeq(widgets, 1, Len(widgets) - 1),
                            !.widgets[widget].parent = parent],
                  widget |-> widget]
        ELSE [u |-> [u EXCEPT !.widgets = Append(@, [key |-> key,
                                                     closed |-> FALSE,
                                                     parent |-> parent])],
              widget |-> Len(u.widgets) + 1]

\* WidgetStash.add_to_pool (parent 0 is the stash itself)
add_to_pool(u, key, widget) ==
    [u EXCEPT !.widgets[widget].parent = 0,
              !.pool[key] = Append(@, widget)]

\* WidgetStash.__aboutToQuit
aboutToQuit(u) ==
    [u EXCEPT
        !.widgets = [w \in DOMAIN u.widgets |->
                        IF \E key \in Keys : w \in Range(u.pool[key])
                        THEN [u.widgets[w] EXCEPT !.closed = TRUE]
                        ELSE u.widgets[w]],
        !.quit = TRUE]

\* showEvent of the three containers
showEvent(u, c) ==
    IF u.containers[c].child # 0 THEN u
    ELSE LET got == get_from_pool(u, u.containers[c].key, c)
         IN  [got.u EXCEPT !.containers[c].child = got.widget]

\* A variant of hideEvent that forgets the child without returning it to
\* the pool
hideEvent_not_returning(u, c) ==
    IF u.containers[c].child = 0 THEN u
    ELSE [u EXCEPT !.containers[c].child = 0]

\* hideEvent of the three containers
hideEvent(u, c) ==
    IF u.containers[c].child = 0 THEN u
    ELSE [add_to_pool(u, u.containers[c].key, u.containers[c].child)
             EXCEPT !.containers[c].child = 0]

\* closeEvent: the info container closes its child; the other containers
\* do not override it
closeEvent(u, c) ==
    IF u.containers[c].key # InfoKey THEN u
    ELSE IF u.containers[c].child = 0
         THEN [u EXCEPT !.last.raised = "AttributeError"]
         ELSE [u EXCEPT !.widgets[u.containers[c].child].closed = TRUE]

\* QWidget.close(): the close event, after which the widget is hidden.  A
\* container that holds a child is visible, so hiding it delivers its hide
\* event; for one that holds none the hide event changes nothing.
close(u, c) == hideEvent(closeEvent(u, c), c)

\* A request of the host: None, or its entity references
NoRequest == [is_none |-> TRUE, entityReferences |-> <<>>]
Request(refs) == [is_none |-> FALSE, entityReferences |-> refs]

\* expected_num_parts of update_request
expected_num_ref_parts == 3

\* update_request of the info container, new_request not being None
update_entity(u, c, refs) ==
    LET ref_str == refs[1]
        ref_parts == Split(DropPrefix(ref_str, Len(reference_prefix)), "/")
        ident == PyInt(ref_parts[3])
        entity == Entity(ref_parts[2], ident.value)
        asked == [u EXCEPT !.last.ref_str = ref_str]
    IN  IF Len(ref_parts) # expected_num_ref_parts THEN asked
        ELSE IF ~ident.ok THEN asked
        ELSE IF u.containers[c].child = 0
             THEN [asked EXCEPT !.containers[c].entity = entity]
             ELSE [asked EXCEPT !.containers[c].entity = entity,
                                !.last.navigated = entity]

\* AppDialogContainer.update_request of the info container
update_request(u, c, new_request) ==
    LET began == [u EXCEPT !.last = [NoEvent EXCEPT
                                        !.before = u.containers[c].entity,
                                        !.child = u.containers[c].child]]
    IN  IF new_request.is_none
        THEN close([hideEvent(began, c) EXCEPT !.last.op = "update_request(None)"], c)
        ELSE IF new_request.entityReferences = <<>>
             THEN [began EXCEPT !.last.op = "update_request"]
             ELSE update_entity([began EXCEPT !.last.op = "update_request"], c,
                                new_request.entityReferences)

\* The requests the host makes of the containers of the pool
HostRequests == {NoRequest, Request(<<>>), Request(<<"fpt://asset/Version/7">>)}

InitUI ==
    /\ sgclient = "None"
    /\ sgtk_lazy = "None"
    /\ project_id = 0
    /\ engine = TRUE
    /\ online = TRUE
    /\ call = NoCall
    /\ probe = NoProbe
    /\ site = Site
    /\ settings = NoSettings
    /\ ui = NoWidgets

Rest == <<sgclient, sgtk_lazy, project_id, engine, online, call, probe, site,
          settings>>

\* populateUI: a container of the given kind is made; the info container
\* is given the initial request
PopulateUI(key, initial_request) ==
    /\ ~ui.quit
    /\ Len(ui.containers) < MaxContainers
    /\ ~initial_request.is_none
    /\ LET c == Len(ui.containers) + 1
           made == [ui EXCEPT !.containers = Append(@, [key |-> key, child |-> 0,
                                                        entity |-> None]),
                              !.last = NoEvent]
       IN  ui' = IF key = InfoKey THEN update_request(made, c, initial_request)
                 ELSE made
    /\ UNCHANGED Rest

\* Qt shows container c
ShowEvent(c) ==
    /\ ~ui.quit
    /\ c \in 1..Len(ui.containers)
    /\ ui' = [showEvent([ui EXCEPT !.last = NoEvent], c) EXCEPT
                 !.last.op = "showEvent",
                 !.last.navigated =
                     IF ui.containers[c].key = InfoKey /\ ui.containers[c].child = 0
                     THEN ui.containers[c].entity ELSE None]
    /\ UNCHANGED Rest

\* Qt hides container c
HideEvent(c) ==
    /\ ~ui.quit
    /\ c \in 1..Len(ui.containers)
    /\ ui' = hideEvent([ui EXCEPT !.last = NoEvent], c)
    /\ UNCHANGED Rest

\* Container c is closed by the host or the user
CloseEvent(c) ==
    /\ ~ui.quit
    /\ c \in 1..Len(ui.containers)
    /\ ui' = close([ui EXCEPT !.last = [NoEvent EXCEPT
                                           !.op = IF ui.containers[c].key = InfoKey
                                                  THEN "closeEvent" ELSE "close",
                                           !.child = ui.containers[c].child]],
                   c)
    /\ UNCHANGED Rest

\* The host calls the updateRequestCallback of info container c
UpdateRequest(c, new_request) ==
    /\ ~ui.quit
    /\ c \in 1..Len(ui.containers)
    /\ ui.containers[c].key = InfoKey
    /\ ui' = update_request(ui, c, new_request)
    /\ UNCHANGED Rest

\* The application's aboutToQuit signal
AboutToQuit ==
    /\ ~ui.quit
    /\ ui' = aboutToQuit([ui EXCEPT !.last = NoEvent])
    /\ UNCHANGED Rest

NextUI ==
    \/ \E key \in Keys, request \in HostRequests : PopulateUI(key, request)
    \/ \E c \in 1..MaxContainers : ShowEvent(c)
    \/ \E c \in 1..MaxContainers : HideEvent(c)
    \/ \E c \in 1..MaxContainers : CloseEvent(c)
    \/ \E c \in 1..MaxContainers, request \in HostRequests : UpdateRequest(c, request)
    \/ AboutToQuit

SpecUI == InitUI /\ [][NextUI]_vars

\* C26: whenever the info container has handled a close event, whether
\* the host closed it or update_request(None) hid and closed it, the
\* handler did not fail and the child the container held when the event
\* began has been closed.
C26_CloseClosesTheChild ==
    ui.last.op \in {"closeEvent", "update_request(None)"} =>
        /\ ui.last.raised = ""
        /\ ui.last.child # 0 => ui.widgets[ui.last.child].closed

\* The containers that hold widget w, and the places it has in the pools
Holders(w) == {c \in 1..Len(ui.containers) : ui.containers[c].child = w}
Places(w) ==
    {<<key, i>> \in Keys \X (1..Len(ui.widgets)) :
        i <= Len(ui.pool[key]) /\ ui.pool[key][i] = w}

\* C27: once aboutToQuit has fired, every widget that was in a pool is
\* closed; so if no container held a widget then (each having had its hide
\* event), every widget get_from_pool ever created is closed.
C27_ClosedAtQuit ==
    ui.quit =>
        /\ \A w \in 1..Len(ui.widgets) : Places(w) # {} => ui.widgets[w].closed
        /\ (\A c \in 1..Len(ui.containers) : ui.containers[c].child = 0) =>
               \A w \in 1..Len(ui.widgets) : ui.widgets[w].closed

\* The application has quit after two containers had each shown and then
\* hidden a widget of its own: both widgets are closed
C27_Witness ==
    /\ ui.quit
    /\ Len(ui.widgets) = 2
    /\ \A c \in 1..Len(ui.containers) : ui.containers[c].child = 0
    /\ \A w \in 1..Len(ui.widgets) : ui.widgets[w].closed

\* Every widget is in one place: once in the pool of its own key, or the
\* child of one container of its kind
OnePlacePerWidget ==
    \A w \in 1..Len(ui.widgets) :
        /\ Cardinality(Places(w)) + Cardinality(Holders(w)) = 1
        /\ \A p \in Places(w) : p[1] = ui.widgets[w].key
        /\ \A c \in Holders(w) :
               ui.containers[c].key = ui.widgets[w].key /\ ui.widgets[w].parent = c

\* C28: at every moment each widget is in exactly one pool list, under its
\* own key and once, or the child of exactly one container, never both; a
\* show event of a container that holds a child fetches nothing; and a
\* widget is created only while the pool of its key is empty.
C28_PoolDiscipline ==
    /\ []OnePlacePerWidget
    /\ [][/\ \A c \in 1..Len(ui.containers) :
                (ShowEvent(c) /\ ui.containers[c].child # 0) =>
                    /\ ui'.containers = ui.containers
                    /\ ui'.pool = ui.pool
                    /\ ui'.widgets = ui.widgets
          /\ Len(ui'.widgets) # Len(ui.widgets) =>
                /\ Len(ui'.widgets) = Len(ui.widgets) + 1
                /\ ui.pool[ui'.widgets[Len(ui'.widgets)].key] = <<>>]_vars

\* Two info containers share the pool: one holds the widget the other had
\* shown and returned, and a second widget, made while the pool was empty,
\* is now back in the pool
C28_Witness ==
    /\ Len(ui.containers) = 2
    /\ \A c \in 1..2 : ui.containers[c].key = InfoKey
    /\ Len(ui.widgets) = 2
    /\ ui.containers[1].child = 0
    /\ ui.containers[2].child = 1
    /\ ui.pool[InfoKey] = <<2>>

(***************************************************************************)
(* One info panel and the requests the host gives its update_request       *)
(***************************************************************************)

\* First references of the requests
PanelRefs ==
    {"fpt://asset/Version/7",          \* a database reference
     "fpt://asset/Version/7/extra",    \* four segments
     "fpt://asset/Version",            \* two segments
     "fpt://asset/Version/1x",         \* an id that is not an integer
     "fpt://workfile/area/12",         \* a workfile reference of three segments
     "fpt://workfile/work/s10/3",      \* a workfile reference of four
     "file:/asset/Shot/5",             \* no prefix
     "asset"}                          \* shorter than the prefix

PanelRequests ==
    {Request(<<>>)} \cup {Request(<<ref>>) : ref \in PanelRefs}
    \cup {Request(<<"fpt://asset/Version/7", "fpt://asset/Shot/5">>)}

\* __create_inline_entity_info has made the container and given it the
\* initial request
InitPanel ==
    /\ sgclient = "None"
    /\ sgtk_lazy = "None"
    /\ project_id = 0
    /\ engine = TRUE
    /\ online = TRUE
    /\ call = NoCall
    /\ probe = NoProbe
    /\ site = Site
    /\ settings = NoSettings
    /\ \E initial_request \in PanelRequests :
           ui = update_request(
                    [NoWidgets EXCEPT !.containers =
                        <<[key |-> InfoKey, child |-> 0, entity |-> None]>>],
                    1, initial_request)

NextPanel ==
    \/ \E request \in PanelRequests \cup {NoRequest} : UpdateRequest(1, request)
    \/ ShowEvent(1)
    \/ HideEvent(1)
    \/ CloseEvent(1)

SpecPanel == InitPanel /\ [][NextPanel]_vars

\* The first reference of the last update_request is a database reference
\* "fpt://asset/{type}/{id}"
AssetReferenceGiven ==
    /\ ParseReference(ui.last.ref_str, "None").kind = "Parsed"
    /\ ParseReference(ui.last.ref_str, "None").type = "ASSET"

\* C30: after update_request with a first reference of the form
\* "fpt://asset/{type}/{id}" the panel remembers exactly that (type,
\* integer id) and a child it holds was told to navigate there; after
\* update_request with any other first reference nothing was navigated to,
\* the remembered entity is the one from before, and nothing was raised.
C30_NavigatesOnlyToAssetReferences ==
    (ui.last.op = "update_request" /\ ui.last.ref_str # "") =>
        IF AssetReferenceGiven
        THEN LET fields == ParseReference(ui.last.ref_str, "None").fields
                 entity == Entity(fields.type, fields.id)
             IN  /\ ui.containers[1].entity = entity
                 /\ ui.last.child # 0 => ui.last.navigated = entity
                 /\ ui.last.raised = ""
        ELSE /\ ui.last.navigated = None
             /\ ui.containers[1].entity = ui.last.before
             /\ ui.last.raised = ""

(***************************************************************************)
(* The traits of a resolve result and the traits asked for                 *)
(***************************************************************************)

\* C29: every success result of resolve carries only traits of the
\* requested trait set, whatever the record holds, and a resolve with the
\* empty trait set of a reference to an existing record succeeds with an
\* empty result.
C29_OnlyRequestedTraits ==
    call.op = "resolve" =>
        /\ \A i \in 1..Len(call.cbs) :
               call.cbs[i].cb = "success" =>
                   call.cbs[i].data.traits \subseteq call.traitSet
        /\ (call.traitSet = {} /\ call.entityReferences = <<VersionRef>>) =>
               call.cbs = <<SuccessCallback(0, {}, TraitsData)>>

\* Only the name was asked of a record that has a path, frames paths, a
\* name and frame numbers: the result carries the name alone
C29_Witness ==
    /\ call.op = "resolve"
    /\ call.traitSet = {DisplayNameTrait}
    /\ site[VersionKey].path.present
    /\ site[VersionKey].sg_path_to_frames # ""
    /\ site[VersionKey].sg_cut_in.present
    /\ site[VersionKey].name = "v7"
    /\ Len(call.cbs) = 1
    /\ call.cbs[1].cb = "success"
    /\ call.cbs[1].data.traits = {DisplayNameTrait}

====
